---------------------------- MODULE Spec2Model ----------------------------
(***************************************************************************)
(* A model of the calc engine: tokenizer, declaration resolver, dependency *)
(* graph, cycle detector, scheduler, parser, unit algebra and evaluator,   *)
(* and the server's /execute and /currencies handlers.                     *)
(*                                                                         *)
(* Conventions.                                                            *)
(*  - A Go string is a sequence of one-character strings; "" is << >>.     *)
(*  - Go slices are sequences; Go indices are 0-based, the model's are     *)
(*    1-based (line i of the model is graph.Lines[i-1]).                   *)
(*  - A Go error is a string; NoError ("") is nil.                         *)
(*  - A float64 is an exact rational [k |-> "rat", n, d] or, where the    *)
(*    result is not a rational the model can compute (sqrt of a           *)
(*    non-square, a division by zero, a transcendental function), an      *)
(*    uninterpreted term [k |-> "sym", op, a].  Rounding is not modelled. *)
(*  - A panic is an outcome of its own ("panic"), never an error value.    *)
(*  - Slices are values: the in-place sorts of Sort and                    *)
(*    SortByBaseUnitName return the sorted list and do not reorder other   *)
(*    lists that share the backing array in Go.                            *)
(*  - UnitTable keeps a part of the catalog (lengths, times, temperatures, *)
(*    two currencies, angles).                                             *)
(***************************************************************************)
EXTENDS Integers, Sequences, FiniteSets, TLC

(***************************************************************************)
(* Strings                                                                 *)
(***************************************************************************)
NoError == ""

Digits == {"0", "1", "2", "3", "4", "5", "6", "7", "8", "9"}

LowerCase == {"a", "b", "c", "d", "e", "f", "g", "h", "i", "j", "k", "l", "m",
              "n", "o", "p", "q", "r", "s", "t", "u", "v", "w", "x", "y", "z"}

UpperCase == {"A", "B", "C", "D", "E", "F", "G", "H", "I", "J", "K", "L", "M",
              "N", "O", "P", "Q", "R", "S", "T", "U", "V", "W", "X", "Y", "Z"}

\* the byte sets of tokenizer
numberChars == Digits \cup {".", ",", "%"}

literalStartChars == LowerCase \cup UpperCase \cup {"_"}

literalChars == literalStartChars \cup Digits

operators == {"+", "-", "*", "/", "^"}

\* The bytes of unit names in order: Go compares strings bytewise.  A byte above
\* 0x7F (the bytes of the UTF-8 sequences of the degree and euro signs, and the
\* bytes string(char) makes of them) is written "0x..".
ByteOrder ==
    <<"$",
      "0", "1", "2", "3", "4", "5", "6", "7", "8", "9",
      "A", "B", "C", "D", "E", "F", "G", "H", "I", "J", "K", "L", "M",
      "N", "O", "P", "Q", "R", "S", "T", "U", "V", "W", "X", "Y", "Z", "_",
      "a", "b", "c", "d", "e", "f", "g", "h", "i", "j", "k", "l", "m",
      "n", "o", "p", "q", "r", "s", "t", "u", "v", "w", "x", "y", "z",
      "0x82", "0x83", "0xA2", "0xAC", "0xB0", "0xC2", "0xC3", "0xE2">>

ByteOf(c) == CHOOSE i \in 1..Len(ByteOrder) : ByteOrder[i] = c

\* string(char) for a byte char: the UTF-8 encoding of the code point char, which
\* is the byte itself below 0x80 and two bytes from 0x80 on
ByteString(c) ==
    IF c \in {"0x82", "0x83", "0xA2", "0xAC", "0xB0"} THEN <<"0xC2", c>>
    ELSE IF c = "0xC2" THEN <<"0xC3", "0x82">>
    ELSE IF c = "0xC3" THEN <<"0xC3", "0x83">>
    ELSE IF c = "0xE2" THEN <<"0xC3", "0xA2">>
    ELSE <<c>>

\* s < t for Go strings (bytewise lexicographic order)
RECURSIVE StrLess(_, _)
StrLess(s, t) ==
    IF t = << >> THEN FALSE
    ELSE IF s = << >> THEN TRUE
    ELSE IF Head(s) = Head(t) THEN StrLess(Tail(s), Tail(t))
    ELSE ByteOf(Head(s)) < ByteOf(Head(t))

\* strings.ReplaceAll(s, old, new) for a one-character old
RECURSIVE ReplaceAll(_, _, _)
ReplaceAll(s, old, new) ==
    IF s = << >> THEN << >>
    ELSE (IF Head(s) = old THEN new ELSE <<Head(s)>>) \o ReplaceAll(Tail(s), old, new)

\* strings.Split(s, "\n")
RECURSIVE SplitFrom(_, _)
SplitFrom(s, cur) ==
    IF s = << >> THEN <<cur>>
    ELSE IF Head(s) = "\n" THEN <<cur>> \o SplitFrom(Tail(s), << >>)
    ELSE SplitFrom(Tail(s), Append(cur, Head(s)))

Split(s) == SplitFrom(s, << >>)

(***************************************************************************)
(* Tokenizer                                                               *)
(***************************************************************************)
Token(kind, value) == [Kind |-> kind, Value |-> value]

\* the index after the maximal run of characters of set that starts at i
RECURSIVE RunEnd(_, _, _)
RunEnd(source, i, set) ==
    IF i <= Len(source) /\ source[i] \in set THEN RunEnd(source, i + 1, set) ELSE i

\* the loop of tokenizer, from position current with the tokens found so far
RECURSIVE tokenizerLoop(_, _, _, _)
tokenizerLoop(source, allowUnknown, current, tokens) ==
    IF current > Len(source) THEN [tokens |-> tokens, err |-> NoError]
    ELSE LET char == source[current]
             one(kind) == tokenizerLoop(source, allowUnknown, current + 1,
                                        Append(tokens, Token(kind, <<char>>)))
             run(kind, set) ==
                 LET end == RunEnd(source, current, set)
                 IN  tokenizerLoop(source, allowUnknown, end,
                         Append(tokens, Token(kind, SubSeq(source, current, end - 1))))
         IN  IF char = "#"
             THEN [tokens |-> Append(tokens,
                                 Token("comment", SubSeq(source, current, Len(source)))),
                   err |-> NoError]
             ELSE IF char \in {" ", "\t"} THEN run("whitespace", {" ", "\t"})
             ELSE IF char \in {"(", ")"} THEN one("paren")
             ELSE IF char = ":" THEN one("definition")
             ELSE IF char \in {"[", "]"} THEN one("bracket")
             ELSE IF char \in operators THEN one("operator")
             ELSE IF char \in Digits THEN run("number", numberChars)
             ELSE IF char \in literalStartChars THEN run("literal", literalChars)
             ELSE IF char = "\n" THEN [tokens |-> << >>, err |-> "panic"]
             ELSE IF allowUnknown
             THEN tokenizerLoop(source, allowUnknown, current + 1,
                                Append(tokens, Token("unknown", ByteString(char))))
             ELSE [tokens |-> << >>, err |-> "Unknown character"]

tokenizer(source, allowUnknown) == tokenizerLoop(source, allowUnknown, 1, << >>)

removeNonSemanticTokens(tokens) ==
    SelectSeq(tokens, LAMBDA t : t.Kind # "comment" /\ t.Kind # "whitespace")


(***************************************************************************)
(* Numbers: float64 values as exact rationals or uninterpreted terms       *)
(***************************************************************************)
Abs(i) == IF i < 0 THEN -i ELSE i

RECURSIVE Gcd(_, _)
Gcd(a, b) == IF b = 0 THEN a ELSE Gcd(b, a % b)

\* the rational n/d in lowest terms with a positive denominator (d # 0)
Rat(n, d) ==
    LET g == Gcd(Abs(n), Abs(d))
        s == IF d < 0 THEN -1 ELSE 1
    IN  [k |-> "rat", n |-> (s * n) \div g, d |-> (s * d) \div g, op |-> "", a |-> << >>]

\* a float64 the model does not compute: the operation and its operands
Sym(name, args) == [k |-> "sym", n |-> 0, d |-> 1, op |-> name, a |-> args]

Num(i) == Rat(i, 1)

IsRat(v) == v.k = "rat"

FAdd(x, y) ==
    IF IsRat(x) /\ IsRat(y) THEN Rat(x.n * y.d + y.n * x.d, x.d * y.d)
    ELSE Sym("+", <<x, y>>)

FSub(x, y) ==
    IF IsRat(x) /\ IsRat(y) THEN Rat(x.n * y.d - y.n * x.d, x.d * y.d)
    ELSE Sym("-", <<x, y>>)

FMul(x, y) ==
    IF IsRat(x) /\ IsRat(y) THEN Rat(x.n * y.n, x.d * y.d)
    ELSE Sym("*", <<x, y>>)

\* x / y: a float division by zero gives an infinity or a NaN, never a panic
FDiv(x, y) ==
    IF IsRat(x) /\ IsRat(y) /\ y.n # 0 THEN Rat(x.n * y.d, x.d * y.n)
    ELSE Sym("/", <<x, y>>)

FNeg(x) == IF IsRat(x) THEN Rat(-x.n, x.d) ELSE Sym("neg", <<x>>)

RECURSIVE IntPow(_, _)
IntPow(b, e) == IF e = 0 THEN 1 ELSE b * IntPow(b, e - 1)

\* the largest exponent magnitude math.Pow is computed for exactly
MaxPow == 6

\* math.Pow(x, y)
FPow(x, y) ==
    IF IsRat(x) /\ IsRat(y) /\ y.d = 1 /\ Abs(y.n) <= MaxPow
    THEN IF y.n >= 0 THEN Rat(IntPow(x.n, y.n), IntPow(x.d, y.n))
         ELSE IF x.n # 0 THEN Rat(IntPow(x.d, -y.n), IntPow(x.n, -y.n))
         ELSE Sym("pow", <<x, y>>)
    ELSE IF IsRat(x) /\ x = Rat(1, 1) THEN x
    ELSE Sym("pow", <<x, y>>)

\* the largest integer whose square roots the model computes
MaxRoot == 40

\* math.Sqrt(x), exact on squares of small rationals
FSqrt(x) ==
    IF IsRat(x) /\ x.n >= 0
          /\ (\E r \in 0..MaxRoot : r * r = x.n) /\ (\E r \in 1..MaxRoot : r * r = x.d)
    THEN Rat(CHOOSE r \in 0..MaxRoot : r * r = x.n, CHOOSE r \in 1..MaxRoot : r * r = x.d)
    ELSE Sym("sqrt", <<x>>)

(***************************************************************************)
(* Lines and the execution graph                                           *)
(***************************************************************************)
\* Ast{...}; the zero Ast has Kind "" and no Params
Ast(kind, value, params, unit) ==
    [Kind |-> kind, Value |-> value, Params |-> params, Unit |-> unit]

EmptyAst == Ast("", << >>, << >>, << >>)

\* Line{Tokens: ..., RawTokens: ...} and Line{Error: err}
Line(tokens, rawTokens, err) ==
    [Name |-> << >>, Tokens |-> tokens, RawTokens |-> rawTokens,
     Dependencies |-> << >>, Value |-> Num(0), Ast |-> EmptyAst,
     Unit |-> << >>, Error |-> err]

IsEmpty(line) == Len(line.Tokens) = 0

HasError(line) == line.Error # NoError

\* the body of Tokenize's loop for one source line
TokenizeLine(source, allowUnknown) ==
    LET r == tokenizer(source, allowUnknown)
    IN  IF r.err # NoError THEN Line(<< >>, << >>, r.err)
        ELSE Line(removeNonSemanticTokens(r.tokens), r.tokens, NoError)

\* graph.Tokenize(allowUnknown): the Lines of the source code
TokenizeLines(sourceCode, allowUnknown) ==
    LET src == Split(sourceCode)
    IN  [i \in 1..Len(src) |-> TokenizeLine(src[i], allowUnknown)]

\* m[key] = val only when m has no key yet
MapPutOnce(m, key, val) ==
    IF key \in DOMAIN m THEN m
    ELSE [k \in DOMAIN m \cup {key} |-> IF k = key THEN val ELSE m[k]]

\* a Go map write m[key] = val
MapPut(m, key, val) ==
    [x \in DOMAIN m \cup {key} |-> IF x = key THEN val ELSE m[x]]

IsDeclaration(line) ==
    /\ Len(line.Tokens) > 1
    /\ line.Tokens[1].Kind = "literal"
    /\ line.Tokens[2].Kind = "definition"

\* parseVariableDeclarations from line i on: the lines and the Variables map
RECURSIVE DeclarationsFrom(_, _, _)
DeclarationsFrom(lines, vars, i) ==
    IF i > Len(lines) THEN [Lines |-> lines, Variables |-> vars]
    ELSE IF IsDeclaration(lines[i])
    THEN DeclarationsFrom(
             [lines EXCEPT ![i].Name = lines[i].Tokens[1].Value,
                           ![i].Tokens = SubSeq(lines[i].Tokens, 3, Len(lines[i].Tokens))],
             MapPut(vars, lines[i].Tokens[1].Value, i),
             i + 1)
    ELSE DeclarationsFrom(lines, vars, i + 1)

parseVariableDeclarations(lines) == DeclarationsFrom(lines, << >>, 1)

\* the Dependencies of one line: one entry per literal token that names a variable
RECURSIVE LineDependencies(_, _)
LineDependencies(tokens, vars) ==
    IF tokens = << >> THEN << >>
    ELSE (IF Head(tokens).Kind = "literal" /\ Head(tokens).Value \in DOMAIN vars
          THEN <<vars[Head(tokens).Value]>> ELSE << >>)
         \o LineDependencies(Tail(tokens), vars)

parseLineDependencies(lines, vars) ==
    [i \in 1..Len(lines) |->
        [lines[i] EXCEPT !.Dependencies = lines[i].Dependencies
                                            \o LineDependencies(lines[i].Tokens, vars)]]

(***************************************************************************)
(* Cycle detector and scheduler                                            *)
(***************************************************************************)
RECURSIVE recHasCycles(_, _, _)
RECURSIVE recHasCyclesLoop(_, _, _, _)

\* a variant of recHasCyclesLoop that takes every edge to a discovered node for a
\* back-edge, whether or not the node is finished
recHasCyclesLoopDiscovered(lines, st, node, k) ==
    IF k > Len(lines[node].Dependencies) THEN st
    ELSE IF st.dt[lines[node].Dependencies[k]] # 0 THEN [st EXCEPT !.cyc = TRUE]
    ELSE recHasCyclesLoop(lines, recHasCycles(lines, st, lines[node].Dependencies[k]),
                          node, k + 1)

\* st = [dt, ft, step, cyc]: the timestamps, the clock, and the value returned
recHasCycles(lines, st, node) ==
    LET st1 == [st EXCEPT !.dt[node] = st.step, !.step = st.step + 1]
        r == recHasCyclesLoop(lines, st1, node, 1)
    IN  IF r.cyc THEN r
        ELSE [r EXCEPT !.ft[node] = r.step, !.step = r.step + 1]

\* the loop over the dependencies of node, from the k-th on
recHasCyclesLoop(lines, st, node, k) ==
    IF k > Len(lines[node].Dependencies) THEN st
    ELSE LET n == lines[node].Dependencies[k]
         IN  IF st.dt[n] = 0
             THEN LET r == recHasCycles(lines, st, n)
                  IN  IF r.cyc THEN r ELSE recHasCyclesLoop(lines, r, node, k + 1)
             ELSE IF st.ft[n] = 0 THEN [st EXCEPT !.cyc = TRUE]
             ELSE recHasCyclesLoop(lines, st, node, k + 1)

\* the loop of hasCyclicalDependencies over the lines, from line i on
RECURSIVE hasCyclesFrom(_, _, _)
hasCyclesFrom(lines, st, i) ==
    IF i > Len(lines) THEN FALSE
    ELSE IF st.dt[i] = 0
    THEN LET r == recHasCycles(lines, st, i)
         IN  IF r.cyc THEN TRUE ELSE hasCyclesFrom(lines, r, i + 1)
    ELSE hasCyclesFrom(lines, st, i + 1)

hasCyclicalDependencies(lines) ==
    hasCyclesFrom(lines,
                  [dt |-> [i \in 1..Len(lines) |-> 0], ft |-> [i \in 1..Len(lines) |-> 0],
                   step |-> 1, cyc |-> FALSE],
                  1)

RECURSIVE recTopologicalOrder(_, _, _)
RECURSIVE recTopologicalLoop(_, _, _, _)

\* a variant of recTopologicalOrder that appends the line in pre-order, before the
\* lines it depends on
recTopologicalOrderPre(lines, st, line) ==
    recTopologicalLoop(lines,
                       [order |-> Append(st.order, line),
                        visited |-> [st.visited EXCEPT ![line] = TRUE]],
                       line, 1)

\* st = [order, visited]
recTopologicalOrder(lines, st, line) ==
    LET r == recTopologicalLoop(lines, st, line, 1)
    IN  [order |-> Append(r.order, line), visited |-> [r.visited EXCEPT ![line] = TRUE]]

recTopologicalLoop(lines, st, line, k) ==
    IF k > Len(lines[line].Dependencies) THEN st
    ELSE LET l == lines[line].Dependencies[k]
         IN  IF ~st.visited[l]
             THEN recTopologicalLoop(lines, recTopologicalOrder(lines, st, l), line, k + 1)
             ELSE recTopologicalLoop(lines, st, line, k + 1)

RECURSIVE findOrderFrom(_, _, _)
findOrderFrom(lines, st, i) ==
    IF i > Len(lines) THEN st.order
    ELSE IF ~st.visited[i] THEN findOrderFrom(lines, recTopologicalOrder(lines, st, i), i + 1)
    ELSE findOrderFrom(lines, st, i + 1)

findExecutionOrder(lines) ==
    findOrderFrom(lines, [order |-> << >>, visited |-> [i \in 1..Len(lines) |-> FALSE]], 1)


(***************************************************************************)
(* Fundamental units                                                       *)
(***************************************************************************)
FundamentalUnit(id, display, aliases, base, factor, shift) ==
    [ID |-> id, DisplayValue |-> display, Aliases |-> aliases, BaseUnit |-> base,
     ConversionFactor |-> factor, ConversionShift |-> shift]

\* The entries of UnitTable the model keeps (lengths, times, temperatures,
\* two currencies, angles), as a sequence; UnitTable maps each ID to its entry.
UnitEntries == <<
    FundamentalUnit(<<"m", "e", "t", "e", "r">>, <<"m">>,
        <<<<"m">>, <<"m", "e", "t", "e", "r">>, <<"m", "e", "t", "r", "e">>>>,
        <<"m", "e", "t", "e", "r">>, Num(1), Num(0)),
    FundamentalUnit(<<"c", "e", "n", "t", "i", "m", "e", "t", "e", "r">>, <<"c", "m">>,
        <<<<"c", "m">>, <<"c", "e", "n", "t", "i", "m", "e", "t", "r", "e">>, <<"c", "e", "n", "t", "i", "m", "e", "t", "e", "r">>>>,
        <<"m", "e", "t", "e", "r">>, Rat(1, 100), Num(0)),
    FundamentalUnit(<<"m", "i", "l", "l", "i", "m", "e", "t", "e", "r">>, <<"m", "m">>,
        <<<<"m", "m">>, <<"m", "i", "l", "l", "i", "m", "e", "t", "r", "e">>, <<"m", "i", "l", "l", "i", "m", "e", "t", "e", "r">>>>,
        <<"m", "e", "t", "e", "r">>, Rat(1, 1000), Num(0)),
    FundamentalUnit(<<"k", "i", "l", "o", "m", "e", "t", "e", "r">>, <<"k", "m">>,
        <<<<"k", "m">>, <<"k", "i", "l", "o", "m", "e", "t", "r", "e">>, <<"k", "i", "l", "o", "m", "e", "t", "e", "r">>>>,
        <<"m", "e", "t", "e", "r">>, Num(1000), Num(0)),
    FundamentalUnit(<<"s", "e", "c", "o", "n", "d">>, <<"s">>,
        <<<<"s">>, <<"s", "e", "c", "o", "n", "d">>, <<"s", "e", "c", "o", "n", "d", "s">>>>,
        <<"s", "e", "c", "o", "n", "d">>, Num(1), Num(0)),
    FundamentalUnit(<<"h", "o", "u", "r">>, <<"h", "o", "u", "r", "s">>,
        <<<<"h", "o", "u", "r">>, <<"h", "o", "u", "r", "s">>>>,
        <<"s", "e", "c", "o", "n", "d">>, Num(3600), Num(0)),
    FundamentalUnit(<<"m", "o", "n", "t", "h">>, <<"m", "o", "n", "t", "h">>,
        <<<<"m", "o", "n", "t", "h">>, <<"m", "o", "n", "t", "h", "s">>>>,
        <<"s", "e", "c", "o", "n", "d">>, Num(2592000), Num(0)),
    FundamentalUnit(<<"c", "e", "l", "s", "i", "u", "s">>, <<"0xC2", "0xB0", "C">>,
        <<<<"C">>, <<"0xC2", "0xB0", "C">>, <<"c", "e", "l", "s", "i", "u", "s">>>>,
        <<"c", "e", "l", "s", "i", "u", "s">>, Num(1), Num(0)),
    FundamentalUnit(<<"f", "a", "h", "r", "e", "n", "h", "e", "i", "t">>, <<"0xC2", "0xB0", "F">>,
        <<<<"F">>, <<"0xC2", "0xB0", "F">>, <<"f", "a", "h", "r", "e", "n", "h", "e", "i", "t">>>>,
        <<"c", "e", "l", "s", "i", "u", "s">>, Rat(5, 9), Num(-32)),
    FundamentalUnit(<<"k", "e", "l", "v", "i", "n">>, <<"K">>,
        <<<<"K">>, <<"k", "e", "l", "v", "i", "n">>>>,
        <<"c", "e", "l", "s", "i", "u", "s">>, Num(1), Rat(-27315, 100)),
    FundamentalUnit(<<"e", "u", "r">>, <<"0xE2", "0x82", "0xAC">>,
        <<<<"0xE2", "0x82", "0xAC">>, <<"e", "u", "r">>, <<"E", "U", "R">>>>,
        <<"e", "u", "r">>, Num(1), Num(0)),
    FundamentalUnit(<<"u", "s", "d">>, <<"$">>,
        <<<<"$">>, <<"u", "s", "d">>, <<"U", "S", "D">>>>,
        <<"e", "u", "r">>, Rat(84, 100), Num(0)),
    FundamentalUnit(<<"r", "a", "d", "i", "a", "n", "s">>, <<"r", "a", "d">>,
        <<<<"r", "a", "d">>, <<"r", "a", "d", "i", "a", "n", "s">>>>,
        <<"r", "a", "d", "i", "a", "n", "s">>, Num(1), Num(0)),
    FundamentalUnit(<<"d", "e", "g", "r", "e", "e", "s">>, <<"d", "e", "g">>,
        <<<<"d", "e", "g">>, <<"d", "e", "g", "r", "e", "e", "s">>>>,
        <<"r", "a", "d", "i", "a", "n", "s">>, Sym("pi/180", << >>), Num(0)) >>

UnitTable ==
    [id \in {UnitEntries[i].ID : i \in 1..Len(UnitEntries)} |->
        UnitEntries[CHOOSE i \in 1..Len(UnitEntries) : UnitEntries[i].ID = id]]

\* the ConversionFactor of the four entries in the literal of UnitTable
CurrencyFactors ==
    [id \in {<<"u", "s", "d">>, <<"g", "b", "p">>, <<"c", "n", "y">>, <<"c", "a", "d">>} |->
        IF id = <<"u", "s", "d">> THEN Rat(84, 100)
        ELSE IF id = <<"g", "b", "p">> THEN Rat(117, 100)
        ELSE IF id = <<"c", "n", "y">> THEN Rat(13, 100)
        ELSE Rat(67, 100)]

\* the entries the /currencies handler writes, in the order it writes them
CurrencyOrder == <<<<"u", "s", "d">>, <<"g", "b", "p">>, <<"c", "n", "y">>, <<"c", "a", "d">>>>

\* UnitAliasesMap after LoadUnitAliases: every alias of every unit maps to its ID
UnitAliasesMap ==
    LET owner(a) == CHOOSE i \in 1..Len(UnitEntries) :
                        \E j \in 1..Len(UnitEntries[i].Aliases) : UnitEntries[i].Aliases[j] = a
    IN  [a \in UNION {{UnitEntries[i].Aliases[j] : j \in 1..Len(UnitEntries[i].Aliases)} :
                         i \in 1..Len(UnitEntries)} |-> UnitEntries[owner(a)].ID]

AreUnitsCompatible(u, v) == u.BaseUnit = v.BaseUnit

\* ConvertFundamentalUnits with the conversion applied to equal units as well
ConvertFundamentalUnitsAlways(value, from, to, exp) ==
    FSub(FDiv(FMul(FAdd(value, from.ConversionShift), FPow(from.ConversionFactor, exp)),
              FPow(to.ConversionFactor, exp)),
         to.ConversionShift)

\* ConvertFundamentalUnits with the shift of the target unit added, not subtracted
ConvertFundamentalUnitsShiftAdded(value, from, to, exp) ==
    IF from.ID = to.ID THEN value
    ELSE FAdd(FDiv(FMul(FAdd(value, from.ConversionShift), FPow(from.ConversionFactor, exp)),
                   FPow(to.ConversionFactor, exp)),
              to.ConversionShift)

\* ConvertFundamentalUnits panics on incompatible units; otherwise its value is
ConvertFundamentalUnits(value, from, to, exp) ==
    IF from.ID = to.ID THEN value
    ELSE FSub(FDiv(FMul(FAdd(value, from.ConversionShift), FPow(from.ConversionFactor, exp)),
                   FPow(to.ConversionFactor, exp)),
              to.ConversionShift)

(***************************************************************************)
(* Composite units: sequences of UnitExponent                              *)
(***************************************************************************)
UnitExponent(unit, exponent) == [Unit |-> unit, Exponent |-> exponent]

\* exponent > 0 and exponent < 0 on float64; a term the model does not compute
\* compares like a NaN
IsPositive(x) == IsRat(x) /\ x.n > 0

IsNegative(x) == IsRat(x) /\ x.n < 0

\* the less function of Sort
SortLess(x, y) ==
    IF IsPositive(x.Exponent) /\ IsNegative(y.Exponent) THEN TRUE
    ELSE IF IsNegative(x.Exponent) /\ IsPositive(y.Exponent) THEN FALSE
    ELSE StrLess(x.Unit.DisplayValue, y.Unit.DisplayValue)

\* the less function of SortByBaseUnitName
BaseUnitLess(x, y) == StrLess(x.Unit.BaseUnit, y.Unit.BaseUnit)

Less(byBase, x, y) == IF byBase THEN BaseUnitLess(x, y) ELSE SortLess(x, y)

Swap(list, i, j) == [list EXCEPT ![i] = list[j], ![j] = list[i]]

\* sort.Slice on a slice of fewer than 12 elements is an insertion sort:
\* the inner loop sinks element j while it is less than its predecessor
RECURSIVE Sink(_, _, _)
Sink(list, j, byBase) ==
    IF j > 1 /\ Less(byBase, list[j], list[j - 1])
    THEN Sink(Swap(list, j, j - 1), j - 1, byBase)
    ELSE list

RECURSIVE InsertionSort(_, _, _)
InsertionSort(list, i, byBase) ==
    IF i > Len(list) THEN list
    ELSE InsertionSort(Sink(list, i, byBase), i + 1, byBase)

\* cu.Sort() leaving the list as it is
SortUnsorted(cu) == cu

\* cu.Sort()
Sort(cu) == InsertionSort(cu, 2, FALSE)

\* cu.SortByBaseUnitName() leaving the list as it is
SortByBaseUnitNameUnsorted(cu) == cu

\* cu.SortByBaseUnitName()
SortByBaseUnitName(cu) == InsertionSort(cu, 2, TRUE)

\* cu.IsEmpty()
UnitIsEmpty(cu) == Len(cu) = 0

\* cu.IsCompatible(other)
IsCompatible(cu, other) ==
    LET a == Sort(cu)
        b == Sort(other)
    IN  /\ Len(a) = Len(b)
        /\ \A i \in 1..Len(a) :
              a[i].Exponent = b[i].Exponent /\ AreUnitsCompatible(a[i].Unit, b[i].Unit)

\* the loop of ConvertCompositeUnits over the sorted lists, from entry i on
RECURSIVE ConvertLoop(_, _, _, _)
ConvertLoop(value, from, to, i) ==
    IF i > Len(from) THEN [st |-> "ok", val |-> value]
    ELSE IF ~AreUnitsCompatible(from[i].Unit, to[i].Unit) THEN [st |-> "panic", val |-> value]
    ELSE ConvertLoop(ConvertFundamentalUnits(value, from[i].Unit, to[i].Unit, from[i].Exponent),
                     from, to, i + 1)

\* ConvertCompositeUnits returning the value as it is when the units are compatible
ConvertCompositeUnitsUnconverted(value, from, to) ==
    IF ~IsCompatible(from, to) THEN [st |-> "err", val |-> Num(0)]
    ELSE [st |-> "ok", val |-> value]

\* ConvertCompositeUnits: st is "ok", "err" (Units are not compatible) or "panic"
ConvertCompositeUnits(value, from, to) ==
    IF ~IsCompatible(from, to) THEN [st |-> "err", val |-> Num(0)]
    ELSE ConvertLoop(value, Sort(from), Sort(to), 1)

CompositeUnitExponentiation(cu, exp) ==
    [i \in 1..Len(cu) |-> UnitExponent(cu[i].Unit, FMul(cu[i].Exponent, exp))]

\* the loop of CompositeUnitProduct over the lists sorted by base unit
RECURSIVE ProductLoop(_, _, _, _, _, _)
ProductLoop(value, a, b, aIndex, bIndex, product) ==
    IF aIndex > Len(a) /\ bIndex > Len(b) THEN [val |-> value, unit |-> Sort(product)]
    ELSE IF aIndex > Len(a)
    THEN ProductLoop(value, a, b, aIndex, bIndex + 1, Append(product, b[bIndex]))
    ELSE IF bIndex > Len(b)
    THEN ProductLoop(value, a, b, aIndex + 1, bIndex, Append(product, a[aIndex]))
    ELSE IF AreUnitsCompatible(a[aIndex].Unit, b[bIndex].Unit)
    THEN LET unit == UnitExponent(a[aIndex].Unit,
                                  FAdd(a[aIndex].Exponent, b[bIndex].Exponent))
             v == ConvertFundamentalUnits(value, b[bIndex].Unit, a[aIndex].Unit,
                                          b[bIndex].Exponent)
         IN  ProductLoop(v, a, b, aIndex + 1, bIndex + 1,
                         IF unit.Exponent # Num(0) THEN Append(product, unit) ELSE product)
    ELSE IF StrLess(a[aIndex].Unit.BaseUnit, b[bIndex].Unit.BaseUnit)
    THEN ProductLoop(value, a, b, aIndex + 1, bIndex, Append(product, a[aIndex]))
    ELSE ProductLoop(value, a, b, aIndex, bIndex + 1, Append(product, b[bIndex]))

CompositeUnitProduct(valueA, valueB, a, b) ==
    ProductLoop(FMul(valueA, valueB), SortByBaseUnitName(a), SortByBaseUnitName(b),
                1, 1, << >>)

CompositeUnitDivision(valueA, valueB, a, b) ==
    CompositeUnitProduct(valueA, FDiv(Num(1), valueB), a,
                         CompositeUnitExponentiation(b, Num(-1)))


\* the decimal digits of a natural number
RECURSIVE NatDigits(_)
NatDigits(i) ==
    IF i < 10 THEN <<ByteOrder[i + 2]>>
    ELSE Append(NatDigits(i \div 10), ByteOrder[(i % 10) + 2])

\* the most fraction digits the model renders
MaxFraction == 4

\* the digits of the fraction r/d (r < d), to MaxFraction places; a fraction
\* that does not end there is marked "~" (its shortest float32 form is not modelled)
RECURSIVE FractionDigits(_, _, _)
FractionDigits(r, d, places) ==
    IF r = 0 THEN << >>
    ELSE IF places = 0 THEN <<"~">>
    ELSE <<ByteOrder[((r * 10) \div d) + 2]>> \o FractionDigits((r * 10) % d, d, places - 1)

\* strconv.FormatFloat(exp, 'f', -1, 32) for exp >= 0
FormatFloat(x) ==
    IF ~IsRat(x) THEN <<"~">>
    ELSE NatDigits(x.n \div x.d)
         \o (IF x.n % x.d = 0 THEN << >>
             ELSE <<".">> \o FractionDigits(x.n % x.d, x.d, MaxFraction))

\* the loop of String over the sorted list, from entry i on, with s built so far
RECURSIVE StringLoop(_, _, _)
StringLoop(list, i, s) ==
    IF i > Len(list) THEN s
    ELSE LET factor == list[i]
             s1 == IF IsNegative(factor.Exponent)
                   THEN (IF s = << >> THEN <<"1">> ELSE s) \o <<" ", "/">>
                   ELSE s
             s2 == IF s1 # << >> THEN Append(s1, " ") ELSE s1
             exp == IF IsNegative(factor.Exponent) THEN FNeg(factor.Exponent)
                    ELSE factor.Exponent
         IN  StringLoop(list, i + 1,
                 IF exp # Num(1)
                 THEN s2 \o factor.Unit.DisplayValue \o <<"^">> \o FormatFloat(exp)
                 ELSE s2 \o factor.Unit.DisplayValue)

\* cu.String()
String(cu) == StringLoop(Sort(cu), 1, << >>)


(***************************************************************************)
(* strconv.ParseFloat on the characters a number token can hold            *)
(***************************************************************************)
\* the number a sequence of digits denotes
RECURSIVE DigitsValue(_)
DigitsValue(ds) ==
    IF ds = << >> THEN 0
    ELSE DigitsValue(SubSeq(ds, 1, Len(ds) - 1)) * 10 + (ByteOf(ds[Len(ds)]) - 2)

\* ParseFloat accepts digits with at most one decimal point and at least one
\* digit; its value is exact here.  ok is FALSE where ParseFloat returns an error.
ParseFloat(raw) ==
    LET points == {i \in 1..Len(raw) : raw[i] = "."}
        ds == SelectSeq(raw, LAMBDA c : c \in Digits)
    IN  IF /\ \A i \in 1..Len(raw) : raw[i] \in Digits \cup {"."}
           /\ Cardinality(points) <= 1
           /\ ds # << >>
        THEN [ok |-> TRUE,
              val |-> Rat(DigitsValue(ds),
                          IF points = {} THEN 1
                          ELSE IntPow(10, Len(raw) - (CHOOSE i \in points : TRUE)))]
        ELSE [ok |-> FALSE, val |-> Num(0)]

(***************************************************************************)
(* Parser                                                                  *)
(***************************************************************************)
functions == {<<"s", "q", "r", "t">>,
              <<"l", "o", "g">>,
              <<"l", "n">>,
              <<"s", "i", "n">>,
              <<"c", "o", "s">>,
              <<"t", "a", "n">>,
              <<"a", "b", "s">>,
              <<"l", "n">>,
              <<"r", "o", "u", "n", "d">>,
              <<"c", "e", "i", "l">>,
              <<"f", "l", "o", "o", "r">>}

constants == {<<"p", "i">>, <<"e">>}

OkAst(ast, current) == [st |-> "ok", ast |-> ast, err |-> NoError, current |-> current]

ErrAst(err) == [st |-> "err", ast |-> EmptyAst, err |-> err, current |-> 0]

PanicAst == [st |-> "panic", ast |-> EmptyAst, err |-> NoError, current |-> 0]

\* walkUnit of parser on token, the token at current
walkUnitToken(token, current) ==
    IF token.Kind = "number"
    THEN OkAst(Ast("UnitNumberLiteral", token.Value, << >>, << >>), current + 1)
    ELSE IF token.Kind = "literal"
    THEN IF token.Value \in DOMAIN UnitAliasesMap
         THEN OkAst(Ast("FundamentalUnit", UnitAliasesMap[token.Value], << >>, << >>),
                    current + 1)
         ELSE OkAst(Ast("CustomUnit", token.Value, << >>, << >>), current + 1)
    ELSE IF token.Kind = "operator" /\ token.Value = <<"^">>
    THEN OkAst(Ast("UnitExponent", token.Value, << >>, << >>), current + 1)
    ELSE IF token.Kind = "operator" /\ token.Value = <<"/">>
    THEN OkAst(Ast("UnitDivision", token.Value, << >>, << >>), current + 1)
    ELSE ErrAst("Unrecognized unit syntax")

\* walkUnit of parser: one node of a bracketed unit expression
walkUnit(tokens, current) ==
    IF current > Len(tokens) THEN ErrAst("Line ends unexpectedly")
    ELSE walkUnitToken(tokens[current], current)

FailedUnit == [err |-> "Failed to parse unit expression", unit |-> << >>]

RECURSIVE parseUnitLoop(_, _, _, _)

\* the UnitExponent branch: exp is what ParseFloat returned for the number
parseUnitExponent(params, curr, cu, exponentSign, exp) ==
    IF ~exp.ok THEN [err |-> "invalid syntax", unit |-> << >>]
    ELSE parseUnitLoop(params, curr + 2,
                       [cu EXCEPT ![Len(cu)].Exponent = FMul(exp.val, exponentSign)],
                       exponentSign)

\* the body of the loop of parseUnitAst on token, the node at curr
parseUnitToken(params, curr, cu, exponentSign, token) ==
    IF token.Kind = "FundamentalUnit"
    THEN parseUnitLoop(params, curr + 1,
                       Append(cu, UnitExponent(UnitTable[token.Value], exponentSign)),
                       exponentSign)
    ELSE IF token.Kind = "CustomUnit"
    THEN parseUnitLoop(params, curr + 1,
                       Append(cu, UnitExponent(
                           FundamentalUnit(token.Value, token.Value, <<token.Value>>,
                                           token.Value, Num(1), Num(0)),
                           exponentSign)),
                       exponentSign)
    ELSE IF token.Kind = "UnitDivision" /\ exponentSign = Num(1)
    THEN parseUnitLoop(params, curr + 1, cu, Num(-1))
    ELSE IF token.Kind = "UnitExponent" /\ Len(cu) > 0
    THEN IF curr + 1 <= Len(params) /\ params[curr + 1].Kind = "UnitNumberLiteral"
         THEN parseUnitExponent(params, curr, cu, exponentSign,
                                ParseFloat(params[curr + 1].Value))
         ELSE FailedUnit
    ELSE IF token.Kind = "UnitNumberLiteral" /\ Len(cu) = 0
    THEN parseUnitLoop(params, curr + 1, cu, exponentSign)
    ELSE FailedUnit

\* the loop of parseUnitAst from node curr on, with the list built so far
parseUnitLoop(params, curr, cu, exponentSign) ==
    IF curr > Len(params) THEN [err |-> NoError, unit |-> cu]
    ELSE parseUnitToken(params, curr, cu, exponentSign, params[curr])

parseUnitAst(ast) == parseUnitLoop(ast.Params, 1, << >>, Num(1))

IsToken(token, kind, value) == token.Kind = kind /\ token.Value = value

RECURSIVE walkBracketLoop(_, _, _)

\* the end of the bracket loop: u is what parseUnitAst returned
walkBracketClose(ast, u, current) ==
    IF u.err # NoError THEN ErrAst(u.err)
    ELSE OkAst([ast EXCEPT !.Unit = u.unit], current + 1)

\* the body of the bracket loop: content is what walkUnit returned
walkBracketStep(tokens, ast, content) ==
    IF content.st # "ok" THEN content
    ELSE IF content.current > Len(tokens) THEN ErrAst("Line ends unexpectedly")
    ELSE walkBracketLoop(tokens, content.current,
                         [ast EXCEPT !.Params = Append(@, content.ast)])

\* the loop of walk inside brackets: nodes up to the closing bracket
walkBracketLoop(tokens, current, ast) ==
    IF IsToken(tokens[current], "bracket", <<"]">>)
    THEN walkBracketClose(ast, parseUnitAst(ast), current)
    ELSE walkBracketStep(tokens, ast, walkUnit(tokens, current))

RECURSIVE walk(_, _, _)
RECURSIVE walkParenLoop(_, _, _, _)

\* ast with the node content added: a unit expression sets the Unit of ast,
\* any other node is appended to its Params
AddContent(ast, content) ==
    IF content.Kind # "UnitExpression"
    THEN [ast EXCEPT !.Params = Append(@, content)]
    ELSE [ast EXCEPT !.Unit = content.Unit]

\* the Function branch of walk: content is what walk returned for the argument
walkFunction(token, content) ==
    IF content.st # "ok" THEN content
    ELSE OkAst(Ast("Function", token.Value, <<content.ast>>, << >>), content.current)

\* the body of the parenthesis loop: content is what walk returned
walkParenStep(tokens, variables, ast, content) ==
    IF content.st # "ok" THEN content
    ELSE IF content.current > Len(tokens) THEN ErrAst("Line ends unexpectedly")
    ELSE walkParenLoop(tokens, variables, content.current, AddContent(ast, content.ast))

\* a variant of LiteralKind that looks the literal up in the variables first
LiteralKindVariableFirst(value, variables) ==
    IF value \in DOMAIN variables THEN "Variable"
    ELSE IF value \in constants THEN "Constant"
    ELSE IF value \in functions THEN "Function"
    ELSE ""

\* the literal branch of walk: the kind of node a literal token becomes, "" when
\* the literal is no constant, no variable and no function
LiteralKind(value, variables) ==
    IF value \in constants THEN "Constant"
    ELSE IF value \in DOMAIN variables THEN "Variable"
    ELSE IF value \in functions THEN "Function"
    ELSE ""

\* walk of parser on token, the token at current
walkToken(tokens, variables, current, token) ==
    IF token.Kind = "number"
    THEN OkAst(Ast("NumberLiteral", token.Value, << >>, << >>), current + 1)
    ELSE IF IsToken(token, "paren", <<"(">>)
    THEN IF current + 1 > Len(tokens) THEN ErrAst("Line ends unexpectedly")
         ELSE walkParenLoop(tokens, variables, current + 1,
                            Ast("Expression", << >>, << >>, << >>))
    ELSE IF IsToken(token, "bracket", <<"[">>)
    THEN IF current + 1 > Len(tokens) THEN ErrAst("Line ends unexpectedly")
         ELSE walkBracketLoop(tokens, current + 1,
                              Ast("UnitExpression", << >>, << >>, << >>))
    ELSE IF token.Kind = "literal" /\ LiteralKind(token.Value, variables) = "Constant"
    THEN OkAst(Ast("Constant", token.Value, << >>, << >>), current + 1)
    ELSE IF token.Kind = "literal" /\ LiteralKind(token.Value, variables) = "Variable"
    THEN OkAst(Ast("Variable", token.Value, << >>, << >>), current + 1)
    ELSE IF token.Kind = "literal" /\ LiteralKind(token.Value, variables) = "Function"
    THEN IF current + 1 > Len(tokens) THEN ErrAst("Line ends unexpectedly")
         ELSE walkFunction(token, walk(tokens, variables, current + 1))
    ELSE IF token.Kind = "operator"
    THEN OkAst(Ast("RawOperator", token.Value, << >>, << >>), current + 1)
    ELSE ErrAst("Unrecognized syntax")

\* walk of parser: the node that starts at token current
walk(tokens, variables, current) ==
    IF current > Len(tokens) THEN ErrAst("Line ends unexpectedly")
    ELSE walkToken(tokens, variables, current, tokens[current])

\* the loop of walk inside parentheses: nodes up to the closing parenthesis
walkParenLoop(tokens, variables, current, ast) ==
    IF IsToken(tokens[current], "paren", <<")">>) THEN OkAst(ast, current + 1)
    ELSE walkParenStep(tokens, variables, ast, walk(tokens, variables, current))

RECURSIVE walkTopLoop(_, _, _, _)

\* the body of the top-level loop: content is what walk returned
walkTopStep(tokens, variables, ast, content) ==
    IF content.st # "ok" THEN content
    ELSE walkTopLoop(tokens, variables, content.current, AddContent(ast, content.ast))

\* the top-level loop of parser: the flat Expression of the whole line
walkTopLoop(tokens, variables, current, ast) ==
    IF current > Len(tokens) THEN OkAst(ast, current)
    ELSE walkTopStep(tokens, variables, ast, walk(tokens, variables, current))

\* results of parseOperator: st is "ok", "err" or "panic"
OkParse(ast) == [st |-> "ok", ast |-> ast, err |-> NoError]

ErrParse(err) == [st |-> "err", ast |-> EmptyAst, err |-> err]

PanicParse == [st |-> "panic", ast |-> EmptyAst, err |-> NoError]

RECURSIVE parseOperator(_, _)
RECURSIVE parseExpressionLoop(_, _, _, _)

\* parseOperator: one folding pass for operator over the tree ast
parseOperator(ast, operator) ==
    IF ast.Kind \in {"NumberLiteral", "Constant", "Variable"} THEN OkParse(ast)
    ELSE IF ast.Kind = "Function"
    THEN IF Len(ast.Params) = 0 THEN ErrParse("Function called without argument")
         ELSE IF ast.Params[1].Kind = "RawOperator"
         THEN ErrParse("Cannot pass operation as argument to function")
         ELSE LET content == parseOperator(ast.Params[1], operator)
              IN  IF content.st # "ok" THEN content
                  ELSE OkParse([ast EXCEPT !.Params = <<content.ast>>])
    ELSE IF ast.Kind = "Operator"
    THEN LET firstParam == parseOperator(ast.Params[1], operator)
             secondParam == parseOperator(ast.Params[2], operator)
         IN  IF firstParam.st = "panic" \/ secondParam.st = "panic" THEN PanicParse
             ELSE IF firstParam.st = "err" THEN firstParam
             ELSE IF secondParam.st = "err" THEN secondParam
             ELSE OkParse([ast EXCEPT !.Params = <<firstParam.ast, secondParam.ast>>])
    ELSE IF ast.Kind = "Expression"
    THEN parseExpressionLoop(ast, operator, 1, << >>)
    ELSE PanicParse

\* the loop of the Expression branch, at child i with parsedParams built so far
parseExpressionLoop(ast, operator, i, parsedParams) ==
    IF i > Len(ast.Params) THEN OkParse([ast EXCEPT !.Params = parsedParams])
    ELSE LET token == ast.Params[i]
         IN  IF token.Kind # "RawOperator"
             THEN LET parsed == parseOperator(token, operator)
                  IN  IF parsed.st # "ok" THEN parsed
                      ELSE parseExpressionLoop(ast, operator, i + 1,
                                               Append(parsedParams, parsed.ast))
             ELSE IF token.Value # operator
             THEN parseExpressionLoop(ast, operator, i + 1, Append(parsedParams, token))
             ELSE IF i >= Len(ast.Params)
             THEN ErrParse("Cannot end expression with operation")
             ELSE IF Len(parsedParams) = 0 /\ operator # <<"-">>
             THEN ErrParse("Cannot start expression with operation")
             ELSE LET firstToken ==
                          IF Len(parsedParams) = 0
                          THEN Ast("NumberLiteral", <<"0">>, << >>, << >>)
                          ELSE parsedParams[Len(parsedParams)]
                      rest == IF Len(parsedParams) = 0 THEN parsedParams
                              ELSE SubSeq(parsedParams, 1, Len(parsedParams) - 1)
                      next == ast.Params[i + 1]
                  IN  IF next.Kind = "RawOperator"
                      THEN ErrParse("Cannot have 2 operations consecutively")
                      ELSE LET secondToken == parseOperator(next, operator)
                           IN  IF secondToken.st # "ok" THEN secondToken
                               ELSE parseExpressionLoop(ast, operator, i + 2,
                                        Append(rest,
                                               Ast("Operator", token.Value,
                                                   <<firstToken, secondToken.ast>>, << >>)))

\* the folding passes with the passes of * and / exchanged
PassOrderDivisionFirst == <<<<"^">>, <<"/">>, <<"*">>, <<"-">>, <<"+">>>>

\* the order of the folding passes
PassOrder == <<<<"^">>, <<"*">>, <<"/">>, <<"-">>, <<"+">>>>

\* the loop of parser over the passes, from pass k on
RECURSIVE parsePasses(_, _)
parsePasses(ast, k) ==
    IF k > Len(PassOrder) THEN OkParse(ast)
    ELSE LET newAst == parseOperator(ast, PassOrder[k])
         IN  IF newAst.st # "ok" THEN newAst ELSE parsePasses(newAst.ast, k + 1)

\* parser(tokens, variables): st is "ok" (ast), "err" (err) or "panic"
parser(tokens, variables) ==
    LET flat == walkTopLoop(tokens, variables, 1, Ast("Expression", << >>, << >>, << >>))
    IN  IF flat.st = "err" THEN ErrParse(flat.err)
        ELSE parsePasses(flat.ast, 1)

(***************************************************************************)
(* Evaluator                                                               *)
(***************************************************************************)
OkVal(val, unit) == [st |-> "ok", val |-> val, unit |-> unit, err |-> NoError]

ErrVal(err) == [st |-> "err", val |-> Num(0), unit |-> << >>, err |-> err]

PanicVal == [st |-> "panic", val |-> Num(0), unit |-> << >>, err |-> NoError]

\* a variant of NumberLiteralValue that drops every "%" and never divides by 100
NumberLiteralValueUndivided(value) ==
    IF ReplaceAll(ReplaceAll(value, ".", << >>), ",", <<".">>) = << >> THEN PanicVal
    ELSE IF ~ParseFloat(SelectSeq(ReplaceAll(ReplaceAll(value, ".", << >>), ",", <<".">>),
                                  LAMBDA c : c # "%")).ok
    THEN ErrVal("Invalid number literal")
    ELSE OkVal(ParseFloat(SelectSeq(ReplaceAll(ReplaceAll(value, ".", << >>), ",", <<".">>),
                                    LAMBDA c : c # "%")).val,
               << >>)

\* the NumberLiteral branch of executeAst on the text of the literal
NumberLiteralValue(value) ==
    LET raw1 == ReplaceAll(ReplaceAll(value, ".", << >>), ",", <<".">>)
    IN  IF raw1 = << >> THEN PanicVal
        ELSE LET isPercentage == raw1[Len(raw1)] = "%"
                 raw == IF isPercentage THEN SubSeq(raw1, 1, Len(raw1) - 1) ELSE raw1
                 parsed == ParseFloat(raw)
             IN  IF ~parsed.ok THEN ErrVal("Invalid number literal")
                 ELSE OkVal(IF isPercentage THEN FDiv(parsed.val, Num(100)) ELSE parsed.val,
                            << >>)

\* a variant of VariableValue without the check for an error on the defining line
VariableValueUnchecked(name, lines, variables) ==
    IF IsEmpty(lines[variables[name]])
    THEN ErrVal("Referring to a variable defined by empty expression")
    ELSE OkVal(lines[variables[name]].Value, lines[variables[name]].Unit)

\* the Variable branch of executeAst
VariableValue(name, lines, variables) ==
    LET line == variables[name]
    IN  IF IsEmpty(lines[line])
        THEN ErrVal("Referring to a variable defined by empty expression")
        ELSE IF HasError(lines[line])
        THEN ErrVal("Referring to a variable whose definition has an error")
        ELSE OkVal(lines[line].Value, lines[line].Unit)

\* the switch of the Operator branch on two evaluated operands
OperatorValue(op, firstValue, unit1, secondValue, unit2) ==
    IF op \in {<<"+">>, <<"-">>}
    THEN LET conv == ConvertCompositeUnits(secondValue, unit2, unit1)
         IN  IF conv.st = "panic" THEN PanicVal
             ELSE IF conv.st = "err" THEN ErrVal("Units are not compatible")
             ELSE IF op = <<"+">> THEN OkVal(FAdd(firstValue, conv.val), unit1)
             ELSE OkVal(FSub(firstValue, conv.val), << >>)
    ELSE IF op = <<"*">>
    THEN LET r == CompositeUnitProduct(firstValue, secondValue, unit1, unit2)
         IN  OkVal(r.val, r.unit)
    ELSE IF op = <<"/">>
    THEN LET r == CompositeUnitDivision(firstValue, secondValue, unit1, unit2)
         IN  OkVal(r.val, r.unit)
    ELSE IF op = <<"^">>
    THEN IF ~UnitIsEmpty(unit2) THEN ErrVal("Exponent must be a number with no unit")
         ELSE OkVal(FPow(firstValue, secondValue),
                    CompositeUnitExponentiation(unit1, secondValue))
    ELSE PanicVal

\* the value of sin, cos and tan: radians and degrees give a unitless result
TrigValue(name, value, unit) ==
    IF String(unit) = <<"r", "a", "d">> THEN OkVal(Sym(name, <<value>>), << >>)
    ELSE IF String(unit) = <<"d", "e", "g">>
    THEN OkVal(Sym(name, <<ConvertFundamentalUnits(value, UnitTable[<<"d", "e", "g", "r", "e", "e", "s">>],
                                                   UnitTable[<<"r", "a", "d", "i", "a", "n", "s">>],
                                                   Num(1))>>),
               << >>)
    ELSE OkVal(Sym(name, <<value>>), unit)

\* the switch of the Function branch on the evaluated argument
FunctionValue(name, value, unit) ==
    IF name = <<"s", "q", "r", "t">>
    THEN OkVal(FSqrt(value), CompositeUnitExponentiation(unit, Rat(1, 2)))
    ELSE IF name = <<"l", "o", "g">> THEN OkVal(Sym("log10", <<value>>), unit)
    ELSE IF name = <<"l", "n">> THEN OkVal(Sym("log", <<value>>), unit)
    ELSE IF name = <<"s", "i", "n">> THEN TrigValue("sin", value, unit)
    ELSE IF name = <<"c", "o", "s">> THEN TrigValue("cos", value, unit)
    ELSE IF name = <<"t", "a", "n">> THEN TrigValue("tan", value, unit)
    ELSE IF name = <<"a", "b", "s">>
    THEN OkVal(IF IsRat(value) THEN Rat(Abs(value.n), value.d) ELSE Sym("abs", <<value>>), unit)
    ELSE IF name = <<"r", "o", "u", "n", "d">>
    THEN OkVal(IF IsRat(value) /\ value.d = 1 THEN value ELSE Sym("round", <<value>>), unit)
    ELSE IF name = <<"c", "e", "i", "l">>
    THEN OkVal(IF IsRat(value) /\ value.d = 1 THEN value ELSE Sym("ceil", <<value>>), unit)
    ELSE IF name = <<"f", "l", "o", "o", "r">>
    THEN OkVal(IF IsRat(value) /\ value.d = 1 THEN value ELSE Sym("floor", <<value>>), unit)
    ELSE PanicVal

\* the value of an Expression node whose operand has a unit: conv is what
\* ConvertCompositeUnits returned for the operand and the annotation
ExpressionConverted(conv, unit) ==
    IF conv.st = "panic" THEN PanicVal
    ELSE IF conv.st = "err" THEN ErrVal("Units are not compatible")
    ELSE OkVal(conv.val, unit)

\* the Expression branch adopting the annotation without a conversion
ExpressionValueAdopted(r, unit) ==
    IF r.st # "ok" THEN r
    ELSE IF UnitIsEmpty(unit) THEN r
    ELSE OkVal(r.val, unit)

\* the Expression branch of executeAst, once the operand has been evaluated to r:
\* unit is ast.Unit
ExpressionValue(r, unit) ==
    IF r.st # "ok" THEN r
    ELSE IF UnitIsEmpty(unit) THEN r
    ELSE IF UnitIsEmpty(r.unit) THEN OkVal(r.val, unit)
    ELSE ExpressionConverted(ConvertCompositeUnits(r.val, r.unit, unit), unit)

RECURSIVE executeAst(_, _, _)
\* executeAst(ast, graph): st is "ok" (val, unit), "err" (err) or "panic"
executeAst(ast, lines, variables) ==
    IF ast.Kind = "NumberLiteral" THEN NumberLiteralValue(ast.Value)
    ELSE IF ast.Kind = "Variable" THEN VariableValue(ast.Value, lines, variables)
    ELSE IF ast.Kind = "Expression"
    THEN IF Len(ast.Params) = 0 THEN PanicVal
         ELSE ExpressionValue(executeAst(ast.Params[1], lines, variables), ast.Unit)
    ELSE IF ast.Kind = "Operator"
    THEN LET r1 == executeAst(ast.Params[1], lines, variables)
             r2 == executeAst(ast.Params[2], lines, variables)
         IN  IF r1.st = "panic" \/ r2.st = "panic" THEN PanicVal
             ELSE IF r1.st = "err" THEN ErrVal(r1.err)
             ELSE IF r2.st = "err" THEN ErrVal(r2.err)
             ELSE OperatorValue(ast.Value, r1.val, r1.unit, r2.val, r2.unit)
    ELSE IF ast.Kind = "Function"
    THEN LET r == executeAst(ast.Params[1], lines, variables)
         IN  IF r.st = "panic" THEN PanicVal
             ELSE IF r.st = "err" THEN ErrVal(r.err)
             ELSE FunctionValue(ast.Value, r.val, r.unit)
    ELSE IF ast.Kind = "Constant"
    THEN IF ast.Value = <<"p", "i">> THEN OkVal(Sym("pi", << >>), << >>)
         ELSE IF ast.Value = <<"e">> THEN OkVal(Sym("e", << >>), << >>)
         ELSE PanicVal
    ELSE PanicVal


(***************************************************************************)
(* The program: ParseCode followed by Execute, as main runs them           *)
(***************************************************************************)
VARIABLES
    SourceCode,      \* graph.SourceCode
    Lines,           \* graph.Lines
    Variables,       \* graph.Variables
    ExecutionOrder,  \* graph.ExecutionOrder
    pc,              \* the statement of ParseCode or Execute that runs next
    idx,             \* the index of the loop of ParseCode or Execute that runs
    panicIn,         \* the function that panicked, "" while none has
    evaluated,       \* history: the lines the loop of Execute has visited, in order
    writes,          \* history: per line, the writes of Execute to its Value, Unit or Error
    call,            \* the function a test harness calls, with its arguments
    ret,             \* what the call returned, once it has
    unitTable,       \* the ConversionFactor of usd, gbp, cny and cad in the live UnitTable
    currencies       \* the /currencies handler of the server: its position and its body

vars == <<SourceCode, Lines, Variables, ExecutionOrder, pc, idx, panicIn, evaluated, writes,
         call, ret, unitTable, currencies>>

\* the most lines of a document made of SourceLines
MaxLines == 2

\* the lines of a document made of ChainLines
MaxChain == 3

\* the source lines the documents are made of
SourceLines == {
    << >>,  \* (the empty line)
    <<"5", "5", " ", "+", " ", "y">>,  \* 55 + y
    <<"y", ":", " ", "s", "q", "r", "t", "(", "1", "1", "+", "5", ")", "+", "3">>,  \* y: sqrt(11+5)+3
    <<"x", ":", " ", "5">>,  \* x: 5
    <<"y", ":", " ", "x", " ", "+", " ", "1">>,  \* y: x + 1
    <<"x", ":", " ", "y">>,  \* x: y
    <<"x", ":", " ", "x", " ", "+", " ", "1">>,  \* x: x + 1
    <<"-", "5", " ", "+", " ", "3">>,  \* -5 + 3
    <<"5", " ", "+">>,  \* 5 +
    <<"5", " ", "+", " ", "*", " ", "3">>,  \* 5 + * 3
    <<"+", " ", "-", " ", "5">>,  \* + - 5
    <<"(", ")">>,  \* ()
    <<"x", ":", " ", "5", " ", "[", "m", "]">>,  \* x: 5 [m]
    <<"-", "x">>,  \* -x
    <<"$">>,  \* $
    <<"x", ":", " ", "#", " ", "c">>,  \* x: # c
    <<"y", ":", " ", "5", " ", "+">>,  \* y: 5 +
    <<"m", ":", " ", "5", " ", "+">>,  \* m: 5 +
    <<"5", " ", "[", "m", "]">>,  \* 5 [m]
    <<"y", " ", "+", " ", "(", ")">>,  \* y + ()
    <<"1", ",", "2", ",", "3">>,  \* 1,2,3
    <<"5", " ", "3">>  \* 5 3
    }

\* the source lines the documents about dependencies are made of
ChainLines == {
    <<"x", ":", " ", "y">>,  \* x: y
    <<"y", ":", " ", "z">>,  \* y: z
    <<"z", ":", " ", "x">>,  \* z: x
    <<"z", ":", " ", "5">>,  \* z: 5
    <<"x", ":", " ", "y", " ", "+", " ", "z">>,  \* x: y + z
    <<"y", ":", " ", "x", " ", "+", " ", "x">>,  \* y: x + x
    <<"5", "5", " ", "+", " ", "y">>  \* 55 + y
    }

\* the source lines the documents about the names of literals are made of
NameLines == {
    <<"p", "i", ":", " ", "5">>,  \* pi: 5
    <<"p", "i", " ", "+", " ", "1">>,  \* pi + 1
    <<"s", "q", "r", "t", ":", " ", "4">>,  \* sqrt: 4
    <<"s", "q", "r", "t", "(", "9", ")">>,  \* sqrt(9)
    <<"e", ":", " ", "e", " ", "+", " ", "1">>,  \* e: e + 1
    <<"m", ":", " ", "3", " ", "[", "m", "]">>,  \* m: 3 [m]
    <<"f", "o", "o", " ", "+", " ", "1">>  \* foo + 1
    }

\* the lines joined by newlines
RECURSIVE Join(_)
Join(ls) ==
    IF Len(ls) = 1 THEN ls[1] ELSE ls[1] \o <<"\n">> \o Join(Tail(ls))

\* the documents: up to MaxLines lines of SourceLines or of NameLines, or MaxChain
\* lines of ChainLines
Documents ==
    {Join(ls) : ls \in UNION {[1..n -> SourceLines] : n \in 1..MaxLines}}
    \cup {Join(ls) : ls \in [1..MaxChain -> ChainLines]}
    \cup {Join(ls) : ls \in UNION {[1..n -> NameLines] : n \in 1..MaxLines}}

InitOf(source) ==
    /\ SourceCode = source
    /\ Lines = << >>
    /\ Variables = << >>
    /\ ExecutionOrder = << >>
    /\ pc = "Tokenize"
    /\ idx = 0
    /\ panicIn = ""
    /\ evaluated = << >>
    /\ writes = << >>
    /\ call = [fn |-> "main"]
    /\ ret = [done |-> FALSE]
    /\ unitTable = CurrencyFactors
    /\ currencies = [pc |-> 0, served |-> 0, conversionRates |-> [id \in DOMAIN CurrencyFactors |-> Num(0)]]

Init == \E source \in Documents : InitOf(source)

\* graph.Tokenize(false)
Tokenize ==
    /\ pc = "Tokenize"
    /\ Lines' = TokenizeLines(SourceCode, FALSE)
    /\ writes' = [i \in 1..Len(Lines') |-> 0]
    /\ pc' = "parseVariableDeclarations"
    /\ UNCHANGED <<SourceCode, Variables, ExecutionOrder, idx, panicIn, evaluated, call, ret, unitTable,
                   currencies>>

\* graph.parseVariableDeclarations()
ParseVariableDeclarations ==
    /\ pc = "parseVariableDeclarations"
    /\ LET r == parseVariableDeclarations(Lines)
       IN  Lines' = r.Lines /\ Variables' = r.Variables
    /\ pc' = "parseLineDependencies"
    /\ UNCHANGED <<SourceCode, ExecutionOrder, idx, panicIn, evaluated, writes, call, ret, unitTable,
                   currencies>>

\* graph.parseLineDependencies()
ParseLineDependencies ==
    /\ pc = "parseLineDependencies"
    /\ Lines' = parseLineDependencies(Lines, Variables)
    /\ pc' = "hasCyclicalDependencies"
    /\ UNCHANGED <<SourceCode, Variables, ExecutionOrder, idx, panicIn, evaluated, writes, call, ret, unitTable,
                   currencies>>

\* if graph.hasCyclicalDependencies() { panic("Cyclical definitions detected") }
HasCyclicalDependencies ==
    /\ pc = "hasCyclicalDependencies"
    /\ LET cyclic == hasCyclicalDependencies(Lines)
       IN  /\ pc' = IF cyclic THEN "panic" ELSE "findExecutionOrder"
           /\ panicIn' = IF cyclic THEN "ParseCode" ELSE panicIn
    /\ UNCHANGED <<SourceCode, Lines, Variables, ExecutionOrder, idx, evaluated, writes, call, ret, unitTable,
                   currencies>>

\* graph.findExecutionOrder()
FindExecutionOrder ==
    /\ pc = "findExecutionOrder"
    /\ ExecutionOrder' = findExecutionOrder(Lines)
    /\ pc' = "parser"
    /\ idx' = 1
    /\ UNCHANGED <<SourceCode, Lines, Variables, panicIn, evaluated, writes, call, ret, unitTable,
                   currencies>>

\* the composite unit cu with the ConversionFactor that table holds for its units
UnitsRead(cu, table) ==
    [k \in 1..Len(cu) |->
        IF cu[k].Unit.ID \in DOMAIN table /\ cu[k].Unit.ID \in DOMAIN UnitTable
        THEN [cu[k] EXCEPT !.Unit.ConversionFactor = table[cu[k].Unit.ID]]
        ELSE cu[k]]

\* the tree parser returns when UnitTable holds the factors of table while
\* parseUnitAst reads the entries of the units of the line
RECURSIVE AstRead(_, _)
AstRead(ast, table) ==
    [ast EXCEPT !.Unit = UnitsRead(ast.Unit, table),
                !.Params = [k \in 1..Len(ast.Params) |-> AstRead(ast.Params[k], table)]]

\* the body of the loop of ParseCode that parses the lines, once parser has
\* returned r for line idx
ParsedLine(r) ==
    /\ Lines' = IF r.st = "err" THEN [Lines EXCEPT ![idx].Error = r.err]
                ELSE IF r.st = "ok"
                THEN [Lines EXCEPT ![idx].Ast = AstRead(r.ast, unitTable)]
                ELSE Lines
    /\ pc' = IF r.st = "panic" THEN "panic" ELSE pc
    /\ panicIn' = IF r.st = "panic" THEN "parser" ELSE panicIn
    /\ idx' = IF r.st = "panic" THEN idx ELSE idx + 1

\* one iteration of the loop of ParseCode that parses the lines: line idx
ParseLine ==
    /\ pc = "parser"
    /\ idx <= Len(Lines)
    /\ ParsedLine(parser(Lines[idx].Tokens, Variables))
    /\ UNCHANGED <<SourceCode, Variables, ExecutionOrder, evaluated, writes, call, ret, unitTable,
                   currencies>>

\* ParseCode returns and main calls graph.Execute()
StartExecute ==
    /\ pc = "parser"
    /\ idx > Len(Lines)
    /\ pc' = "Execute"
    /\ idx' = 1
    /\ UNCHANGED <<SourceCode, Lines, Variables, ExecutionOrder, panicIn, evaluated, writes, call, ret, unitTable,
                   currencies>>

\* a variant of ExecuteTarget that visits the lines in the order of the document
ExecuteTargetDocumentOrder(k) == k

\* the line the loop of Execute visits at position k of its range
ExecuteTarget(k) == ExecutionOrder[k]

\* the body of the loop of Execute on line: run tells whether the line is
\* evaluated, r is what executeAst returns for it
ExecutedLine(line, run, r) ==
    /\ evaluated' = Append(evaluated, line)
    /\ Lines' = IF ~run \/ r.st = "panic" THEN Lines
                ELSE IF r.st = "err" THEN [Lines EXCEPT ![line].Error = r.err]
                ELSE [Lines EXCEPT ![line].Value = r.val, ![line].Unit = r.unit]
    /\ writes' = IF ~run \/ r.st = "panic" THEN writes
                 ELSE [writes EXCEPT ![line] = @ + 1]
    /\ pc' = IF run /\ r.st = "panic" THEN "panic" ELSE pc
    /\ panicIn' = IF run /\ r.st = "panic" THEN "executeAst" ELSE panicIn
    /\ idx' = IF run /\ r.st = "panic" THEN idx ELSE idx + 1

\* one iteration of the loop of Execute: the line at position idx of the order
ExecuteLine ==
    /\ pc = "Execute"
    /\ idx <= Len(ExecutionOrder)
    /\ ExecutedLine(ExecuteTarget(idx),
                    ~IsEmpty(Lines[ExecuteTarget(idx)]) /\ ~HasError(Lines[ExecuteTarget(idx)]),
                    executeAst(Lines[ExecuteTarget(idx)].Ast, Lines, Variables))
    /\ UNCHANGED <<SourceCode, Variables, ExecutionOrder, call, ret, unitTable,
                   currencies>>

\* Execute returns
Finish ==
    /\ pc = "Execute"
    /\ idx > Len(ExecutionOrder)
    /\ pc' = "done"
    /\ UNCHANGED <<SourceCode, Lines, Variables, ExecutionOrder, idx, panicIn, evaluated, writes, call, ret, unitTable,
                   currencies>>

Next ==
    \/ Tokenize
    \/ ParseVariableDeclarations
    \/ ParseLineDependencies
    \/ HasCyclicalDependencies
    \/ FindExecutionOrder
    \/ ParseLine
    \/ StartExecute
    \/ ExecuteLine
    \/ Finish

Spec == Init /\ [][Next]_vars

(***************************************************************************)
(* The server: the /execute handler runs ParseCode and Execute on the body *)
(* of its request while the /currencies handler, served by another         *)
(* goroutine, writes the rates of its body to UnitTable                    *)
(***************************************************************************)
\* the most requests the /currencies handler serves
MaxUpdates == 1

\* the rates a body of /currencies holds for a currency
Rates == {Num(2), Num(4)}

\* the bodies of the requests to /execute
ServerDocuments == {
    <<"5">>,  \* 5
    <<"1", " ", "[", "u", "s", "d", "]">>,  \* 1 [usd]
    <<"(", "1", " ", "[", "u", "s", "d", "]", ")", " ", "[", "e", "u", "r", "]">>,  \* (1 [usd]) [eur]
    Join(<<<<"1", " ", "[", "u", "s", "d", "]">>, <<"1", " ", "[", "U", "S", "D", "]">>>>),  \* 1 [usd] / 1 [USD]
    Join(<<<<"(", "1", " ", "[", "u", "s", "d", "]", ")", " ", "[", "e", "u", "r", "]">>,
           <<"(", "1", " ", "[", "U", "S", "D", "]", ")", " ", "[", "e", "u", "r", "]">>>>)  \* (1 [usd]) [eur] / (1 [USD]) [eur]
    }

\* the /execute handler has read the body of its request, the /currencies
\* handler is idle and UnitTable is as its literal sets it
InitServer == \E body \in ServerDocuments : InitOf(body)

\* the /currencies handler binds the body of a request to conversionRates;
\* a body that does not bind is answered with StatusBadRequest
CurrenciesRequest ==
    /\ currencies.pc = 0
    /\ currencies.served < MaxUpdates
    /\ \/ \E body \in [DOMAIN CurrencyFactors -> Rates] :
             currencies' = [currencies EXCEPT !.pc = 1, !.conversionRates = body]
       \/ currencies' = [currencies EXCEPT !.served = @ + 1]
    /\ UNCHANGED <<SourceCode, Lines, Variables, ExecutionOrder, pc, idx, panicIn, evaluated,
                   writes, call, ret, unitTable>>

\* the /currencies handler writes one entry of UnitTable: usd, gbp, cny, cad in
\* this order, and answers after the last
CurrenciesWrite ==
    /\ currencies.pc \in 1..Len(CurrencyOrder)
    /\ LET id == CurrencyOrder[currencies.pc]
       IN  unitTable' = [unitTable EXCEPT ![id] = FDiv(Num(1), currencies.conversionRates[id])]
    /\ currencies' = IF currencies.pc < Len(CurrencyOrder)
                     THEN [currencies EXCEPT !.pc = @ + 1]
                     ELSE [currencies EXCEPT !.pc = 0, !.served = @ + 1]
    /\ UNCHANGED <<SourceCode, Lines, Variables, ExecutionOrder, pc, idx, panicIn, evaluated,
                   writes, call, ret>>

NextServer ==
    \/ Next
    \/ CurrenciesRequest
    \/ CurrenciesWrite

SpecServer == InitServer /\ [][NextServer]_vars

\* the most characters of a number token made of NumberAlphabet
MaxNumberLen == 4

\* the characters the number tokens are made of
NumberAlphabet == {"0", "5", ".", ",", "%"}

\* the number tokens of the README and of malformed numbers
NumberExamples == {
    <<"1", ".", "0", "0", "0", ".", "0", "0", "0">>,  \* 1.000.000
    <<"5", ",", "2">>,  \* 5,2
    <<"5", "6", "%">>,  \* 56%
    <<"1", ",", "2", ",", "3">>,  \* 1,2,3
    <<"5", "%", "%">>,  \* 5%%
    <<"5", "%", "3">>  \* 5%3
    }

\* the documents of one line that the tokenizer reads as one number token: a
\* digit followed by characters of numberChars
NumberTexts ==
    {t \in UNION {[1..n -> NumberAlphabet] : n \in 1..MaxNumberLen} : t[1] \in Digits}
    \cup NumberExamples

InitNumber == \E source \in NumberTexts : InitOf(source)

\* ParseCode and Execute on the documents that are one number literal
SpecNumber == InitNumber /\ [][Next]_vars

(***************************************************************************)
(* Calls of the unit algebra, as the tests of the repository make them     *)
(***************************************************************************)
\* the state before the call c
CallInit(c) ==
    /\ SourceCode = << >>
    /\ Lines = << >>
    /\ Variables = << >>
    /\ ExecutionOrder = << >>
    /\ pc = "call"
    /\ idx = 0
    /\ panicIn = ""
    /\ evaluated = << >>
    /\ writes = << >>
    /\ call = c
    /\ ret = [done |-> FALSE]
    /\ unitTable = CurrencyFactors
    /\ currencies = [pc |-> 0, served |-> 0, conversionRates |-> [id \in DOMAIN CurrencyFactors |-> Num(0)]]

\* the call returns val
Return(val) ==
    /\ pc' = "return"
    /\ ret' = [done |-> TRUE, val |-> val]
    /\ UNCHANGED <<SourceCode, Lines, Variables, ExecutionOrder, idx, panicIn, evaluated,
                   writes, call, unitTable, currencies>>

\* the most entries of a composite unit
MaxEntries == 3

\* the most entries of an operand of a product or a division
MaxOperandEntries == 2

\* the values, exponents and units the calls are made with
CallValues == {Num(0), Num(1), Num(5), Rat(-3, 2)}

CallExponents == {Num(-1), Num(1), Num(2)}

ListUnits ==
    {UnitTable[<<"m", "e", "t", "e", "r">>], UnitTable[<<"k", "i", "l", "o", "m", "e", "t", "e", "r">>],
     UnitTable[<<"s", "e", "c", "o", "n", "d">>], UnitTable[<<"h", "o", "u", "r">>],
     UnitTable[<<"e", "u", "r">>], UnitTable[<<"k", "e", "l", "v", "i", "n">>]}

OperandUnits ==
    {UnitTable[<<"m", "e", "t", "e", "r">>], UnitTable[<<"k", "i", "l", "o", "m", "e", "t", "e", "r">>],
     UnitTable[<<"s", "e", "c", "o", "n", "d">>]}

\* a composite unit is well-formed: one entry per base unit, no exponent 0
WellFormed(cu) ==
    /\ \A i, j \in 1..Len(cu) : i # j => cu[i].Unit.BaseUnit # cu[j].Unit.BaseUnit
    /\ \A i \in 1..Len(cu) : cu[i].Exponent # Num(0)

\* the well-formed composite units of at most n entries over units
UnitLists(units, n) ==
    {cu \in UNION {[1..k -> {UnitExponent(u, e) : u \in units, e \in CallExponents}] :
                      k \in 0..n} : WellFormed(cu)}

\* the units converted with the exponent 2 (with the millimeter, the kilometer and
\* the month the squares are beyond the integers of the model)
SquareUnits ==
    {<<"m", "e", "t", "e", "r">>, <<"c", "e", "n", "t", "i", "m", "e", "t", "e", "r">>,
     <<"s", "e", "c", "o", "n", "d">>, <<"h", "o", "u", "r">>,
     <<"c", "e", "l", "s", "i", "u", "s">>, <<"f", "a", "h", "r", "e", "n", "h", "e", "i", "t">>,
     <<"k", "e", "l", "v", "i", "n">>, <<"e", "u", "r">>, <<"u", "s", "d">>,
     <<"r", "a", "d", "i", "a", "n", "s">>, <<"d", "e", "g", "r", "e", "e", "s">>}

UnitCalls ==
    {c \in {[fn |-> "ConvertFundamentalUnits", value |-> v, from |-> UnitEntries[p[1]],
      to |-> UnitEntries[p[2]], exp |-> e] :
         v \in CallValues, e \in CallExponents,
         p \in {q \in (1..Len(UnitEntries)) \X (1..Len(UnitEntries)) :
                   AreUnitsCompatible(UnitEntries[q[1]], UnitEntries[q[2]])}} :
        c.exp = Num(2) => {c.from.ID, c.to.ID} \subseteq SquareUnits}
    \cup {[fn |-> "ConvertCompositeUnits", value |-> v, from |-> cu, to |-> cu] :
             v \in {Num(5)}, cu \in UnitLists(ListUnits, MaxEntries)}
    \cup {[fn |-> "String", cu |-> cu] : cu \in UnitLists(ListUnits, MaxEntries)}
    \cup {[fn |-> f, valueA |-> Num(6), valueB |-> Num(2), a |-> a, b |-> b] :
             f \in {"CompositeUnitProduct", "CompositeUnitDivision"},
             a \in UnitLists(OperandUnits, MaxOperandEntries),
             b \in UnitLists(OperandUnits, MaxOperandEntries)}
    \cup {[fn |-> "IsCompatible", cu |-> p[1], other |-> p[2]] :
             p \in UnitLists({u \in ListUnits : u.BaseUnit \in {<<"m", "e", "t", "e", "r">>,
                                                                <<"s", "e", "c", "o", "n", "d">>}},
                             MaxOperandEntries)
                   \X UnitLists({u \in ListUnits : u.BaseUnit \in {<<"m", "e", "t", "e", "r">>,
                                                                   <<"s", "e", "c", "o", "n", "d">>}},
                                MaxOperandEntries)}

InitUnits == \E c \in UnitCalls : CallInit(c)

CallConvertFundamentalUnits ==
    /\ pc = "call"
    /\ call.fn = "ConvertFundamentalUnits"
    /\ Return(ConvertFundamentalUnits(call.value, call.from, call.to, call.exp))

CallConvertCompositeUnits ==
    /\ pc = "call"
    /\ call.fn = "ConvertCompositeUnits"
    /\ Return(ConvertCompositeUnits(call.value, call.from, call.to))

CallString ==
    /\ pc = "call"
    /\ call.fn = "String"
    /\ Return(String(call.cu))

CallCompositeUnitProduct ==
    /\ pc = "call"
    /\ call.fn = "CompositeUnitProduct"
    /\ Return(CompositeUnitProduct(call.valueA, call.valueB, call.a, call.b))

CallCompositeUnitDivision ==
    /\ pc = "call"
    /\ call.fn = "CompositeUnitDivision"
    /\ Return(CompositeUnitDivision(call.valueA, call.valueB, call.a, call.b))

CallIsCompatible ==
    /\ pc = "call"
    /\ call.fn = "IsCompatible"
    /\ Return(IsCompatible(call.cu, call.other))

NextUnits ==
    \/ CallIsCompatible
    \/ CallConvertFundamentalUnits
    \/ CallConvertCompositeUnits
    \/ CallString
    \/ CallCompositeUnitProduct
    \/ CallCompositeUnitDivision

SpecUnits == InitUnits /\ [][NextUnits]_vars

(***************************************************************************)
(* Calls of the tokenizer on one line                                      *)
(***************************************************************************)
\* the longest line
MaxSourceLen == 4

\* the characters of the lines: one of each class of the tokenizer, and the two
\* bytes of the degree sign
SourceAlphabet == {"1", ".", "x", " ", "+", "(", ":", "#", "?", "0xC2", "0xB0"}

SourceTexts == UNION {[1..n -> SourceAlphabet] : n \in 0..MaxSourceLen}

InitTokenizer ==
    \E source \in SourceTexts, allowUnknown \in BOOLEAN :
        CallInit([fn |-> "tokenizer", source |-> source, allowUnknown |-> allowUnknown])

CallTokenizer ==
    /\ pc = "call"
    /\ call.fn = "tokenizer"
    /\ Return(tokenizer(call.source, call.allowUnknown))

NextTokenizer == CallTokenizer

SpecTokenizer == InitTokenizer /\ [][NextTokenizer]_vars

(***************************************************************************)
(* The program on one-line documents that are expressions                  *)
(***************************************************************************)
\* the most operators of a line of operands separated by operators
MaxOperators == 3

\* the operands of such a line, by position: numbers with different texts
OperandTexts == <<<<"2">>, <<"1">>, <<"0", "1">>, <<"1", ",", "0">>, <<"0", "0", "1">>>>

\* the line of the first operands with the operators ops between them
RECURSIVE FlatLine(_)
FlatLine(ops) ==
    IF ops = << >> THEN OperandTexts[1]
    ELSE FlatLine(SubSeq(ops, 1, Len(ops) - 1))
         \o <<" ">> \o ops[Len(ops)] \o <<" ">> \o OperandTexts[Len(ops) + 1]

FlatLines == {FlatLine(ops) : ops \in UNION {[1..n -> {<<o>> : o \in operators}] : n \in 0..MaxOperators}}

\* values with a unit annotation
AnnotatedValues == {
    <<"5", " ", "[", "k", "m", "]">>,  \* 5 [km]
    <<"2", "0", "0", " ", "[", "m", "]">>,  \* 200 [m]
    <<"2", " ", "[", "s", "]">>,  \* 2 [s]
    <<"1", " ", "[", "m", " ", "h", "o", "u", "r", "]">>,  \* 1 [m hour]
    <<"1", " ", "[", "k", "m", " ", "s", "]">>,  \* 1 [km s]
    <<"5", " ", "[", "C", "]">>,  \* 5 [C]
    <<"4", "1", " ", "[", "F", "]">>,  \* 41 [F]
    <<"3", "6", " ", "[", "k", "m", "/", "h", "o", "u", "r", "]">>,  \* 36 [km/hour]
    <<"5", " ", "[", "m", "/", "s", "]">>  \* 5 [m/s]
    }

\* the operands of the lines with units: the annotated values bare and in
\* parentheses, and a number without a unit
UnitOperands ==
    AnnotatedValues \cup {<<"(">> \o v \o <<")">> : v \in AnnotatedValues} \cup {<<"3">>}

\* two operands of the same form added or subtracted
UnitLines ==
    {l \in {[a |-> a, op |-> op, b |-> b] : a \in UnitOperands, b \in UnitOperands,
                                             op \in {"+", "-"}} :
        (l.a[1] = "(") = (l.b[1] = "(") \/ <<"3">> \in {l.a, l.b}}

\* the annotations put after a value in parentheses
OuterAnnotations ==
    {<<"[", "m", "]">>, <<"[", "s", "]">>, <<"[", "F", "]">>, <<"[", "K", "]">>,
     <<"[", "c", "m", "/", "h", "o", "u", "r", "]">>, <<"[", "s", " ", "m", "]">>}

\* an operand alone, and an operand in parentheses converted to an annotation
ConvertedLines ==
    UnitOperands \cup {<<"(">> \o v \o <<")", " ">> \o a : v \in AnnotatedValues \cup {<<"3">>},
                                                            a \in OuterAnnotations}

\* lines whose units are multiplied, divided, raised to a power or written with
\* two atoms of one family
ProductLines == {
    <<"5", " ", "[", "m", " ", "m", "]">>,  \* 5 [m m]
    <<"5", " ", "[", "m", " ", "c", "m", "]">>,  \* 5 [m cm]
    <<"(", "5", " ", "[", "m", "]", ")", " ", "^", " ", "0">>,  \* (5 [m]) ^ 0
    <<"(", "5", " ", "[", "m", "]", ")", " ", "^", " ", "2">>,  \* (5 [m]) ^ 2
    <<"(", "5", " ", "[", "m", "]", ")", " ", "*", " ", "(", "2", " ", "[", "m", "]", ")">>,  \* (5 [m]) * (2 [m])
    <<"(", "5", " ", "[", "m", "]", ")", " ", "*", " ", "(", "2", " ", "[", "c", "m", "]", ")">>,  \* (5 [m]) * (2 [cm])
    <<"(", "5", " ", "[", "m", "]", ")", " ", "/", " ", "(", "2", " ", "[", "m", "]", ")">>,  \* (5 [m]) / (2 [m])
    <<"(", "6", " ", "[", "m", "]", ")", " ", "/", " ", "(", "2", " ", "[", "s", "]", ")">>,  \* (6 [m]) / (2 [s])
    <<"s", "q", "r", "t", "(", "4", " ", "[", "m", "^", "2", "]", ")">>  \* sqrt(4 [m^2])
    }

ExpressionDocuments ==
    FlatLines \cup {l.a \o <<" ", l.op, " ">> \o l.b : l \in UnitLines} \cup ConvertedLines
        \cup ProductLines

InitExpression == \E source \in ExpressionDocuments : InitOf(source)

SpecExpression == InitExpression /\ [][Next]_vars

(***************************************************************************)
(* Calls of the parser on a number with a bracketed unit expression        *)
(***************************************************************************)
\* the most tokens between the brackets
MaxUnitTokens == 4

\* the tokens between the brackets: two units, a number, ^ and /
UnitTokens ==
    {Token("literal", <<"m">>), Token("literal", <<"s">>), Token("number", <<"2">>),
     Token("operator", <<"^">>), Token("operator", <<"/">>)}

\* the tokens of the line `5 [inner]`
Bracketed(inner) ==
    <<Token("number", <<"5">>), Token("bracket", <<"[">>)>> \o inner
        \o <<Token("bracket", <<"]">>)>>

InitUnitExpression ==
    \E inner \in UNION {[1..n -> UnitTokens] : n \in 0..MaxUnitTokens} :
        CallInit([fn |-> "parser", inner |-> inner])

CallParser ==
    /\ pc = "call"
    /\ call.fn = "parser"
    /\ Return(parser(Bracketed(call.inner), << >>))

NextUnitExpression == CallParser

SpecUnitExpression == InitUnitExpression /\ [][NextUnitExpression]_vars

(***************************************************************************)
(* The dependency graph of the document, read off the Lines                *)
(***************************************************************************)
LineIndices == 1..Len(Lines)

\* line u has a dependency edge to line v
Edge(u, v) == \E k \in 1..Len(Lines[u].Dependencies) : Lines[u].Dependencies[k] = v

\* the lines reached from the set S by at most n further edges
RECURSIVE ReachWithin(_, _)
ReachWithin(S, n) ==
    IF n = 0 THEN S
    ELSE ReachWithin(S \cup {v \in LineIndices : \E u \in S : Edge(u, v)}, n - 1)

\* the lines u depends on, directly or transitively
DependsOn(u) == ReachWithin({v \in LineIndices : Edge(u, v)}, Len(Lines))

GraphHasCycle == \E u \in LineIndices : u \in DependsOn(u)

\* the positions of line in the sequence order
PositionsOf(order, line) == {k \in 1..Len(order) : order[k] = line}

\* findExecutionOrder has run
Scheduled ==
    \/ pc \in {"parser", "Execute", "done"}
    \/ pc = "panic" /\ panicIn # "ParseCode"

\* ParseCode has panicked with "Cyclical definitions detected"
Rejected == pc = "panic" /\ panicIn = "ParseCode"

\* the check of ParseCode for cycles has run
CycleChecked ==
    pc \notin {"Tokenize", "parseVariableDeclarations", "parseLineDependencies",
               "hasCyclicalDependencies"}

(***************************************************************************)
(* Properties                                                              *)
(***************************************************************************)

\* C1: once findExecutionOrder has run (ParseCode runs it on acyclic documents
\* only), ExecutionOrder holds every line index exactly once, and every line a
\* line has a dependency edge to stands before that line.
C1_OrderIsTopological ==
    Scheduled =>
        /\ Len(ExecutionOrder) = Len(Lines)
        /\ \A i \in LineIndices : Cardinality(PositionsOf(ExecutionOrder, i)) = 1
        /\ \A u, v \in LineIndices :
               Edge(u, v) =>
                   \A ku \in PositionsOf(ExecutionOrder, u) :
                       \A kv \in PositionsOf(ExecutionOrder, v) : kv < ku

\* a scheduled document of three lines in which a line depends on a later line
\* that itself depends on a later line
C1_Witness ==
    /\ Scheduled
    /\ Len(Lines) = 3
    /\ \E u, v, w \in LineIndices : u < v /\ v < w /\ Edge(u, v) /\ Edge(v, w)
    /\ ExecutionOrder # <<1, 2, 3>>

\* C2: once the cycle check has run, ParseCode has panicked with "Cyclical
\* definitions detected" exactly when the dependency graph has a directed cycle
\* (duplicate edges and several paths to one line are no cycle); with that
\* panic no line has an Ast, no execution order exists and no line was evaluated.
C2_RejectedIffCyclic ==
    CycleChecked =>
        /\ Rejected <=> GraphHasCycle
        /\ Rejected =>
               /\ \A i \in LineIndices : Lines[i].Ast = EmptyAst
               /\ \A i \in LineIndices : Lines[i].Value = Num(0) /\ Lines[i].Unit = << >>
               /\ ExecutionOrder = << >>
               /\ evaluated = << >>
               /\ \A i \in LineIndices : writes[i] = 0

\* a document rejected for a cycle through three lines, none of which
\* refers to itself
C2_Witness ==
    /\ Rejected
    /\ Len(Lines) = 3
    /\ \A u \in LineIndices : ~Edge(u, u) /\ u \in DependsOn(u)

\* a document that is not rejected although a line has a duplicate edge
C2_WitnessDuplicateEdge ==
    /\ pc = "done"
    /\ \E u \in LineIndices :
           \E j, k \in 1..Len(Lines[u].Dependencies) :
               j # k /\ Lines[u].Dependencies[j] = Lines[u].Dependencies[k]


\* the loop of ParseCode has called parser on line i
Parsed(i) ==
    \/ pc \in {"Execute", "done"}
    \/ pc = "parser" /\ i < idx
    \/ pc = "panic" /\ panicIn = "parser" /\ i <= idx
    \/ pc = "panic" /\ panicIn = "executeAst"

\* C3: no run of ParseCode and Execute on a document with an acyclic dependency
\* graph panics: the only panic is the rejection of a cyclic document.
C3_NoPanicWhenAcyclic == pc = "panic" => Rejected

\* the tokens hold two operator tokens next to each other
ConsecutiveOperators(tokens) ==
    \E k \in 1..(Len(tokens) - 1) :
        tokens[k].Kind = "operator" /\ tokens[k + 1].Kind = "operator"

\* C4: every line with two consecutive operator tokens that parser was called
\* on has a parse error recorded in its Error field.
C4_ConsecutiveOperatorsRejected ==
    \A i \in LineIndices :
        Parsed(i) /\ ConsecutiveOperators(Lines[i].Tokens) => HasError(Lines[i])

\* the tokens end with an operator or start with an operator other than "-"
OperatorAtEdge(tokens) ==
    /\ Len(tokens) > 0
    /\ \/ tokens[Len(tokens)].Kind = "operator"
       \/ tokens[1].Kind = "operator" /\ tokens[1].Value # <<"-">>

\* C5: every line whose top-level expression ends with an operator, or starts
\* with an operator other than "-", and that parser was called on has a parse
\* error recorded in its Error field.
C5_OperatorAtEdgeRejected ==
    \A i \in LineIndices :
        Parsed(i) /\ OperatorAtEdge(Lines[i].Tokens) => HasError(Lines[i])

\* line i is "-" followed by one operand token, parsed as 0 - operand
LeadingMinus(i) ==
    /\ Len(Lines[i].Tokens) = 2
    /\ Lines[i].Tokens[1] = Token("operator", <<"-">>)
    /\ Lines[i].Ast.Kind = "Expression"
    /\ Len(Lines[i].Ast.Params) = 1
    /\ Lines[i].Ast.Params[1].Kind = "Operator"
    /\ Lines[i].Ast.Params[1].Value = <<"-">>
    /\ Lines[i].Ast.Params[1].Params[1] = Ast("NumberLiteral", <<"0">>, << >>, << >>)

\* the operand of the leading minus of line i
MinusOperand(i) == Lines[i].Ast.Params[1].Params[2]

\* C6: after Execute, every line that is "-" followed by an operand that
\* evaluates without error has no error and has the negated value of the operand.
C6_UnaryMinusNegates ==
    pc = "done" =>
        \A i \in LineIndices :
            LeadingMinus(i) /\ executeAst(MinusOperand(i), Lines, Variables).st = "ok" =>
                /\ ~HasError(Lines[i])
                /\ Lines[i].Value = FNeg(executeAst(MinusOperand(i), Lines, Variables).val)

\* the variable name is defined by a line that is empty or has an error
BadDefinition(name) ==
    IsEmpty(Lines[Variables[name]]) \/ HasError(Lines[Variables[name]])

\* executeAst on ast evaluates a Variable node whose definition is bad (every
\* node on the way to it is evaluated when executeAst does not panic)
RECURSIVE ReadsBadVariable(_)
ReadsBadVariable(ast) ==
    IF ast.Kind = "Variable" THEN BadDefinition(ast.Value)
    ELSE IF ast.Kind = "Expression"
    THEN Len(ast.Params) > 0 /\ ReadsBadVariable(ast.Params[1])
    ELSE IF ast.Kind = "Operator"
    THEN ReadsBadVariable(ast.Params[1]) \/ ReadsBadVariable(ast.Params[2])
    ELSE IF ast.Kind = "Function" THEN ReadsBadVariable(ast.Params[1])
    ELSE FALSE

\* C7: during and after Execute, executeAst on a Variable node whose defining
\* line is empty or has an error returns an error (no value, no panic), and
\* every line Execute has evaluated through such a node has an error and no value.
C7_BadVariableIsError ==
    pc \in {"Execute", "done"} =>
        /\ \A name \in DOMAIN Variables :
               BadDefinition(name) =>
                   LET r == executeAst(Ast("Variable", name, << >>, << >>), Lines, Variables)
                   IN  r.st = "err" /\ r.err # NoError
        /\ \A i \in LineIndices :
               writes[i] > 0 /\ ReadsBadVariable(Lines[i].Ast) =>
                   HasError(Lines[i]) /\ Lines[i].Value = Num(0) /\ Lines[i].Unit = << >>

\* Execute has evaluated a line that reads a variable whose definition has a
\* parse error, and one that reads a variable defined by an empty line
C7_Witness ==
    /\ pc = "done"
    /\ \E i \in LineIndices :
           /\ writes[i] > 0
           /\ ReadsBadVariable(Lines[i].Ast)
           /\ \E name \in DOMAIN Variables :
                  /\ Lines[i].Ast.Params[1] = Ast("Variable", name, << >>, << >>)
                  /\ HasError(Lines[Variables[name]])
                  /\ ~IsEmpty(Lines[Variables[name]])

\* C8: after Execute, every line that depends, directly or transitively, on a
\* line that has an error has an error itself.
C8_ErrorsPropagate ==
    pc = "done" =>
        \A u \in LineIndices :
            (\E v \in DependsOn(u) : HasError(Lines[v])) => HasError(Lines[u])


\* the loop of Execute is running or has ended
Executing == pc \in {"Execute", "done"} \/ (pc = "panic" /\ panicIn = "executeAst")

\* the state part of C9: the lines visited so far are the first entries of
\* ExecutionOrder, no line was written more than once, and a line not visited
\* yet was not written
C9_State ==
    Executing =>
        /\ Len(evaluated) <= Len(ExecutionOrder)
        /\ evaluated = SubSeq(ExecutionOrder, 1, Len(evaluated))
        /\ \A i \in LineIndices : writes[i] <= 1
        /\ \A i \in LineIndices : PositionsOf(evaluated, i) = {} => writes[i] = 0

\* the step part of C9, for the step of Execute that visits the line at idx
C9_Step ==
    pc = "Execute" /\ idx <= Len(ExecutionOrder) =>
        /\ evaluated' = Append(evaluated, ExecutionOrder[idx])
        /\ \A i \in LineIndices : i # ExecutionOrder[idx] => Lines'[i] = Lines[i]
        /\ IsEmpty(Lines[ExecutionOrder[idx]]) \/ HasError(Lines[ExecutionOrder[idx]])
               => Lines' = Lines /\ writes' = writes
        /\ Lines'[ExecutionOrder[idx]] # Lines[ExecutionOrder[idx]]
               => writes'[ExecutionOrder[idx]] = writes[ExecutionOrder[idx]] + 1
        /\ \A v \in DependsOn(ExecutionOrder[idx]) :
               /\ PositionsOf(evaluated, v) # {}
               /\ Lines'[v] = Lines[v]

DigitChars == <<"0", "1", "2", "3", "4", "5", "6", "7", "8", "9">>

DigitOf(c) == (CHOOSE n \in 1..10 : DigitChars[n] = c) - 1

\* the number a sequence of digits writes in base ten
TextValue(ds) ==
    LET Place[i \in 0..Len(ds)] ==
            IF i = 0 THEN 0 ELSE Place[i - 1] * 10 + DigitOf(ds[i])
    IN  Place[Len(ds)]

\* the text without the thousands separators
WithoutDots(text) == SelectSeq(text, LAMBDA c : c # ".")

EndsWithPercent(text) ==
    WithoutDots(text) # << >> /\ WithoutDots(text)[Len(WithoutDots(text))] = "%"

\* the text without the thousands separators and without one trailing "%"
Decimal(text) ==
    IF EndsWithPercent(text)
    THEN SubSeq(WithoutDots(text), 1, Len(WithoutDots(text)) - 1)
    ELSE WithoutDots(text)

\* digits with at most one decimal comma
IsDecimal(body) ==
    /\ \A i \in 1..Len(body) : body[i] \in Digits \cup {","}
    /\ Cardinality({i \in 1..Len(body) : body[i] = ","}) <= 1
    /\ \E i \in 1..Len(body) : body[i] \in Digits

\* the digits after the decimal comma of a decimal
FractionOf(body) ==
    IF \E i \in 1..Len(body) : body[i] = ","
    THEN SubSeq(body, (CHOOSE i \in 1..Len(body) : body[i] = ",") + 1, Len(body))
    ELSE << >>

\* the number the text of a number token stands for
NumberOf(text) ==
    Rat(TextValue(SelectSeq(Decimal(text), LAMBDA c : c # ",")),
        IntPow(10, Len(FractionOf(Decimal(text))))
            * (IF EndsWithPercent(text) THEN 100 ELSE 1))

\* C10: on a document that is one number token, ParseCode and Execute never
\* panic; after Execute the line has the number its text stands for ("." is
\* dropped, "," is the decimal point, one trailing "%" divides by 100) and no
\* error when the rest is a decimal, and the error "Invalid number literal" and
\* no value otherwise; 1.000.000 is 1000000, 5,2 is 5.2, 56% is 0.56, and
\* 1,2,3, 5%% and 5%3 are errors.
C10_NumberLiteral ==
    /\ pc # "panic"
    /\ pc = "done" =>
           /\ Len(Lines) = 1
           /\ IF IsDecimal(Decimal(SourceCode))
              THEN /\ ~HasError(Lines[1])
                   /\ Lines[1].Value = NumberOf(SourceCode)
                   /\ Lines[1].Unit = << >>
              ELSE /\ Lines[1].Error = "Invalid number literal"
                   /\ Lines[1].Value = Num(0)
           /\ SourceCode = <<"1", ".", "0", "0", "0", ".", "0", "0", "0">>
                  => Lines[1].Value = Num(1000000)
           /\ SourceCode = <<"5", ",", "2">> => Lines[1].Value = Rat(52, 10)
           /\ SourceCode = <<"5", "6", "%">> => Lines[1].Value = Rat(56, 100)
           /\ SourceCode \in {<<"1", ",", "2", ",", "3">>, <<"5", "%", "%">>,
                              <<"5", "%", "3">>}
                  => HasError(Lines[1])

\* Execute has ended on the document 56% with the value 0.56
C10_Witness ==
    /\ pc = "done"
    /\ SourceCode = <<"5", "6", "%">>
    /\ ~HasError(Lines[1])
    /\ Lines[1].Value = Rat(14, 25)


(***************************************************************************)
(* The unit algebra                                                        *)
(***************************************************************************)
\* the call of fn has returned
Returned(fn) == pc = "return" /\ call.fn = fn

\* C11: converting a value from a fundamental unit to the same unit returns the
\* value, whatever the exponent, and converting it from a well-formed composite
\* unit to the same composite unit returns the value and no error.
C11_ConversionIdentity ==
    /\ (Returned("ConvertFundamentalUnits") /\ call.from = call.to) => ret.val = call.value
    /\ (Returned("ConvertCompositeUnits") /\ call.from = call.to /\ WellFormed(call.from))
          => ret.val = [st |-> "ok", val |-> call.value]

\* a value was converted from a composite unit with an affine unit (the kelvin) and
\* a second entry to the same composite unit
C11_Witness ==
    /\ Returned("ConvertCompositeUnits")
    /\ call.from = call.to
    /\ Len(call.from) >= 2
    /\ \E i \in 1..Len(call.from) :
          call.from[i].Unit.ID = <<"k", "e", "l", "v", "i", "n">> /\ call.from[i].Exponent = Num(2)
    /\ ret.val = [st |-> "ok", val |-> Num(5)]

\* value in the unit from, raised to exp, measured in the base unit of the family
InBaseUnit(value, unit, exp) ==
    FMul(FAdd(value, unit.ConversionShift), FPow(unit.ConversionFactor, exp))

\* the call ConvertFundamentalUnits(value, from, to, exp) returned result
Converted(value, from, to, exp, result) ==
    /\ Returned("ConvertFundamentalUnits")
    /\ call.value = Num(value)
    /\ call.from = UnitTable[from]
    /\ call.to = UnitTable[to]
    /\ call.exp = Num(exp)
    /\ ret.val = Num(result)

\* C12: between two different units of one family the converted value is
\* ((value + from.shift) * from.factor^exp) / to.factor^exp - to.shift: where the
\* model computes it, the result measured in the base unit equals the value
\* measured in the base unit; and 5 celsius are 41 fahrenheit, 5 kilometer are
\* 5,000,000 millimeter, 1 month is 720 hour, 1 meter with exponent 2 is 10,000
\* centimeter.
C12_ConversionFormula ==
    (Returned("ConvertFundamentalUnits") /\ call.from.ID # call.to.ID) =>
        /\ ret.val = FSub(FDiv(InBaseUnit(call.value, call.from, call.exp),
                               FPow(call.to.ConversionFactor, call.exp)),
                          call.to.ConversionShift)
        /\ IsRat(ret.val) =>
              InBaseUnit(ret.val, call.to, call.exp) = InBaseUnit(call.value, call.from, call.exp)
        /\ \A example \in {<<5, <<"c", "e", "l", "s", "i", "u", "s">>,
                                <<"f", "a", "h", "r", "e", "n", "h", "e", "i", "t">>, 1, 41>>,
                             <<5, <<"k", "i", "l", "o", "m", "e", "t", "e", "r">>,
                                <<"m", "i", "l", "l", "i", "m", "e", "t", "e", "r">>, 1, 5000000>>,
                             <<1, <<"m", "o", "n", "t", "h">>, <<"h", "o", "u", "r">>, 1, 720>>,
                             <<1, <<"m", "e", "t", "e", "r">>,
                                <<"c", "e", "n", "t", "i", "m", "e", "t", "e", "r">>, 2, 10000>>} :
              (/\ call.value = Num(example[1])
               /\ call.from = UnitTable[example[2]]
               /\ call.to = UnitTable[example[3]]
               /\ call.exp = Num(example[4])) => ret.val = Num(example[5])

\* 5 celsius were converted to 41 fahrenheit
C12_Witness ==
    Converted(5, <<"c", "e", "l", "s", "i", "u", "s">>,
              <<"f", "a", "h", "r", "e", "n", "h", "e", "i", "t">>, 1, 41)

\* the other conversions of TestFundamentalUnitConversion
C12_WitnessLengths ==
    Converted(5, <<"k", "i", "l", "o", "m", "e", "t", "e", "r">>,
              <<"m", "i", "l", "l", "i", "m", "e", "t", "e", "r">>, 1, 5000000)

C12_WitnessTimes == Converted(1, <<"m", "o", "n", "t", "h">>, <<"h", "o", "u", "r">>, 1, 720)

C12_WitnessSquare ==
    Converted(1, <<"m", "e", "t", "e", "r">>,
              <<"c", "e", "n", "t", "i", "m", "e", "t", "e", "r">>, 2, 10000)

\* the lists with the entries of cu in any order
Orderings(cu) ==
    {[i \in 1..Len(cu) |-> cu[f[i]]] :
        f \in {g \in [1..Len(cu) -> 1..Len(cu)] :
                  \A i, j \in 1..Len(cu) : i # j => g[i] # g[j]}}

\* the list is in canonical order: positive exponents before negative ones,
\* entries of the same sign by display symbol
Canonical(list) ==
    \A i, j \in 1..Len(list) :
        i < j =>
            /\ ~(IsNegative(list[i].Exponent) /\ IsPositive(list[j].Exponent))
            /\ (IsPositive(list[i].Exponent) <=> IsPositive(list[j].Exponent))
                  => StrLess(list[i].Unit.DisplayValue, list[j].Unit.DisplayValue)

\* C13: the text String returns for a well-formed composite unit is the same for
\* every order of its UnitsList, and it is the text of the entries in canonical
\* order (positive exponents first, entries of the same sign by display symbol).
C13_StringOrderIndependent ==
    (Returned("String") /\ WellFormed(call.cu)) =>
        /\ \A p \in Orderings(call.cu) : String(p) = ret.val
        /\ \E p \in Orderings(call.cu) :
              Canonical(p) /\ ret.val = StringLoop(p, 1, << >>)

\* {second: -1, meter: 2} was rendered as m^2 / s
C13_Witness ==
    /\ Returned("String")
    /\ call.cu = <<UnitExponent(UnitTable[<<"s", "e", "c", "o", "n", "d">>], Num(-1)),
                   UnitExponent(UnitTable[<<"m", "e", "t", "e", "r">>], Num(2))>>
    /\ ret.val = <<"m", "^", "2", " ", "/", " ", "s">>

\* the number of characters c in the text s
RECURSIVE Count(_, _)
Count(s, c) ==
    IF s = << >> THEN 0
    ELSE (IF Head(s) = c THEN 1 ELSE 0) + Count(Tail(s), c)

\* the unit has an entry with a negative exponent
HasNegative(cu) == \E i \in 1..Len(cu) : IsNegative(cu[i].Exponent)

\* C14: the text String returns holds the separator / once when the unit has
\* one or more negative exponents, and never otherwise.
C14_SingleSeparator ==
    (Returned("String") /\ WellFormed(call.cu)) =>
        Count(ret.val, "/") = (IF HasNegative(call.cu) THEN 1 ELSE 0)

\* the base units of the entries of cu
Families(cu) == {cu[i].Unit.BaseUnit : i \in 1..Len(cu)}

\* the entries of cu of the family base
EntriesOf(cu, base) == {i \in 1..Len(cu) : cu[i].Unit.BaseUnit = base}

\* the exponent of the family base in the well-formed unit cu, 0 when it is absent
ExponentOf(cu, base) ==
    IF EntriesOf(cu, base) = {} THEN Num(0)
    ELSE cu[CHOOSE i \in EntriesOf(cu, base) : TRUE].Exponent

\* the unit result has the exponent of a plus sign times the exponent of b in
\* every family, and no entry for a family whose exponent is 0
ExponentsCombined(a, b, sign, result) ==
    /\ Families(result) \subseteq Families(a) \cup Families(b)
    /\ \A base \in Families(a) \cup Families(b) :
          LET sum == FAdd(ExponentOf(a, base), FMul(Num(sign), ExponentOf(b, base)))
          IN  IF sum = Num(0) THEN EntriesOf(result, base) = {}
              ELSE /\ Cardinality(EntriesOf(result, base)) = 1
                   /\ ExponentOf(result, base) = sum

\* C15: the product of two well-formed composite units has one entry for every
\* family of either operand whose exponents do not add up to 0, with the sum as
\* its exponent, and no other entry; the quotient likewise with the difference.
C15_ProductExponents ==
    /\ (Returned("CompositeUnitProduct") /\ WellFormed(call.a) /\ WellFormed(call.b))
          => ExponentsCombined(call.a, call.b, 1, ret.val.unit)
    /\ (Returned("CompositeUnitDivision") /\ WellFormed(call.a) /\ WellFormed(call.b))
          => ExponentsCombined(call.a, call.b, -1, ret.val.unit)

\* meters times meters gave one meter entry with the exponent 2
C15_Witness ==
    /\ Returned("CompositeUnitProduct")
    /\ call.a = <<UnitExponent(UnitTable[<<"m", "e", "t", "e", "r">>], Num(1))>>
    /\ call.b = call.a
    /\ ret.val.unit = <<UnitExponent(UnitTable[<<"m", "e", "t", "e", "r">>], Num(2))>>

\* meters divided by meters gave the empty unit
C15_WitnessDivision ==
    /\ Returned("CompositeUnitDivision")
    /\ call.a = <<UnitExponent(UnitTable[<<"m", "e", "t", "e", "r">>], Num(1))>>
    /\ call.b = call.a
    /\ ret.val.unit = << >>

(***************************************************************************)
(* The tokenizer                                                           *)
(***************************************************************************)
\* the texts of the tokens, one after the other
RECURSIVE Concatenation(_)
Concatenation(tokens) ==
    IF tokens = << >> THEN << >>
    ELSE Head(tokens).Value \o Concatenation(Tail(tokens))

\* C16: when tokenizer returns a token list, every token has a text that is not
\* empty, the texts of the tokens in order make up the input line, and a
\* comment token is the last token.
C16_TokensCoverInput ==
    (Returned("tokenizer") /\ ret.val.err = NoError) =>
        /\ \A i \in 1..Len(ret.val.tokens) : ret.val.tokens[i].Value # << >>
        /\ Concatenation(ret.val.tokens) = call.source
        /\ \A i \in 1..Len(ret.val.tokens) :
              ret.val.tokens[i].Kind = "comment" => i = Len(ret.val.tokens)

(***************************************************************************)
(* Variable declarations                                                   *)
(***************************************************************************)
\* parseVariableDeclarations has run
DeclarationsParsed == pc \notin {"Tokenize", "parseVariableDeclarations", "call", "return"}

\* the semantic tokens of line i as Tokenize left them
SemanticTokens(i) == removeNonSemanticTokens(Lines[i].RawTokens)

\* line i starts with a literal followed by `:`
Declares(i) ==
    /\ Len(SemanticTokens(i)) >= 2
    /\ SemanticTokens(i)[1].Kind = "literal"
    /\ SemanticTokens(i)[2] = Token("definition", <<":">>)

\* the lines that declare name
DeclaringLines(name) ==
    {i \in LineIndices : Declares(i) /\ SemanticTokens(i)[1].Value = name}

\* C18: after parseVariableDeclarations the names in Variables are the names
\* declared by some line, each mapped to the last line that declares it, and
\* every declaring line has lost its first two tokens and has its Name set.
C18_VariableDeclarations ==
    DeclarationsParsed =>
        /\ DOMAIN Variables = {SemanticTokens(i)[1].Value : i \in {j \in LineIndices : Declares(j)}}
        /\ \A name \in DOMAIN Variables :
              /\ Variables[name] \in DeclaringLines(name)
              /\ \A i \in DeclaringLines(name) : i <= Variables[name]
        /\ \A i \in LineIndices :
              Declares(i) =>
                  /\ Lines[i].Name = SemanticTokens(i)[1].Value
                  /\ Lines[i].Tokens = SubSeq(SemanticTokens(i), 3, Len(SemanticTokens(i)))

\* a name was declared by two lines and maps to the second one
C18_Witness ==
    /\ DeclarationsParsed
    /\ \E name \in DOMAIN Variables :
          /\ Cardinality(DeclaringLines(name)) = 2
          /\ Variables[name] = 2
          /\ Lines[1].Name = name
          /\ Lines[2].Tokens # << >>

(***************************************************************************)
(* Unit annotations                                                        *)
(***************************************************************************)
\* the index of the first token `]` of tokens from k on, 0 when there is none
RECURSIVE ClosingBracket(_, _)
ClosingBracket(tokens, k) ==
    IF k > Len(tokens) THEN 0
    ELSE IF IsToken(tokens[k], "bracket", <<"]">>) THEN k
    ELSE ClosingBracket(tokens, k + 1)

\* the tokens with every number that is followed by an annotation put in
\* parentheses together with its annotation
RECURSIVE Parenthesised(_)
Parenthesised(tokens) ==
    IF tokens = << >> THEN << >>
    ELSE IF /\ tokens[1].Kind = "number"
            /\ Len(tokens) >= 2
            /\ IsToken(tokens[2], "bracket", <<"[">>)
            /\ ClosingBracket(tokens, 3) # 0
    THEN <<Token("paren", <<"(">>)>>
         \o SubSeq(tokens, 1, ClosingBracket(tokens, 3))
         \o <<Token("paren", <<")">>)>>
         \o Parenthesised(SubSeq(tokens, ClosingBracket(tokens, 3) + 1, Len(tokens)))
    ELSE <<Head(tokens)>> \o Parenthesised(Tail(tokens))

\* the number of annotations of the tokens
Annotations(tokens) ==
    Cardinality({k \in 1..Len(tokens) : IsToken(tokens[k], "bracket", <<"[">>)})

\* the tokens hold several annotated operands at one nesting level
SeveralAnnotations(tokens) ==
    /\ Annotations(tokens) >= 2
    /\ \A k \in 1..Len(tokens) : tokens[k].Kind # "paren"

\* what Execute left in line i
Outcome(i) == [err |-> Lines[i].Error, val |-> Lines[i].Value, unit |-> Lines[i].Unit]

\* the outcome of parsing and evaluating tokens
OutcomeOf(tokens) ==
    LET p == parser(tokens, Variables)
        e == executeAst(p.ast, Lines, Variables)
    IN  IF p.st # "ok" THEN [err |-> p.err, val |-> Num(0), unit |-> << >>]
        ELSE IF e.st # "ok" THEN [err |-> e.err, val |-> Num(0), unit |-> << >>]
        ELSE [err |-> NoError, val |-> e.val, unit |-> e.unit]

\* C17: an annotation written after a value applies to that value: a line with
\* several annotated operands and no parentheses has the outcome of the line
\* with each annotated operand in parentheses.
C17_AnnotationAppliesToOperand ==
    pc = "done" =>
        \A i \in LineIndices :
            SeveralAnnotations(Lines[i].Tokens) =>
                Outcome(i) = OutcomeOf(Parenthesised(Lines[i].Tokens))

(***************************************************************************)
(* Operator precedence                                                     *)
(***************************************************************************)
\* the operators from the loosest to the tightest binding
Binding == <<<<"+">>, <<"-">>, <<"/">>, <<"*">>, <<"^">>>>

\* the tokens are operands separated by single operators
IsFlat(tokens) ==
    /\ Len(tokens) % 2 = 1
    /\ \A k \in 1..Len(tokens) :
          tokens[k].Kind = (IF k % 2 = 1 THEN "number" ELSE "operator")

\* the positions of the operator op in tokens
Occurrences(tokens, op) == {k \in 1..Len(tokens) : IsToken(tokens[k], "operator", op)}

\* the loosest operator of flat tokens with an operator
Loosest(tokens) ==
    Binding[CHOOSE j \in 1..Len(Binding) :
               /\ Occurrences(tokens, Binding[j]) # {}
               /\ \A l \in 1..(j - 1) : Occurrences(tokens, Binding[l]) = {}]

\* the last position of the loosest operator of tokens
Root(tokens) ==
    CHOOSE k \in Occurrences(tokens, Loosest(tokens)) :
        \A l \in Occurrences(tokens, Loosest(tokens)) : l <= k

\* the tree of flat tokens: it splits at the last occurrence of the loosest
\* operator, so operators of one symbol associate to the left and every
\* operator binds tighter than the looser ones
RECURSIVE Tree(_)
Tree(tokens) ==
    IF Len(tokens) = 1 THEN Ast("NumberLiteral", tokens[1].Value, << >>, << >>)
    ELSE Ast("Operator", Loosest(tokens),
             <<Tree(SubSeq(tokens, 1, Root(tokens) - 1)),
               Tree(SubSeq(tokens, Root(tokens) + 1, Len(tokens)))>>, << >>)

\* C19: the passes ^, *, /, -, + turn every line of operands separated by single
\* operators into the tree in which operators of the same symbol associate to
\* the left and an operator of an earlier pass binds tighter than an operator of
\* a later pass.
C19_PassOrderPrecedence ==
    pc \in {"Execute", "done"} =>
        \A i \in LineIndices :
            IsFlat(Lines[i].Tokens) =>
                /\ ~HasError(Lines[i])
                /\ Lines[i].Ast.Kind = "Expression"
                /\ Lines[i].Ast.Params = <<Tree(Lines[i].Tokens)>>

\* the line 2 / 1 * 01 - 1,0 was parsed as (2 / (1 * 01)) - 1,0
C19_Witness ==
    /\ pc = "done"
    /\ Len(Lines) = 1
    /\ IsFlat(Lines[1].Tokens)
    /\ Lines[1].Ast.Params =
          <<Ast("Operator", <<"-">>,
                <<Ast("Operator", <<"/">>,
                      <<Ast("NumberLiteral", <<"2">>, << >>, << >>),
                        Ast("Operator", <<"*">>,
                            <<Ast("NumberLiteral", <<"1">>, << >>, << >>),
                              Ast("NumberLiteral", <<"0", "1">>, << >>, << >>)>>, << >>)>>,
                      << >>),
                  Ast("NumberLiteral", <<"1", ",", "0">>, << >>, << >>)>>, << >>)>>

\* the line 2 ^ 1 ^ 01 was parsed as (2 ^ 1) ^ 01
C19_WitnessLeft ==
    /\ pc = "done"
    /\ Len(Lines) = 1
    /\ Lines[1].Ast.Params =
          <<Ast("Operator", <<"^">>,
                <<Ast("Operator", <<"^">>,
                      <<Ast("NumberLiteral", <<"2">>, << >>, << >>),
                        Ast("NumberLiteral", <<"1">>, << >>, << >>)>>, << >>),
                  Ast("NumberLiteral", <<"0", "1">>, << >>, << >>)>>, << >>)>>

(***************************************************************************)
(* Addition and subtraction of values with units                           *)
(***************************************************************************)
\* the entries of the well-formed unit cu in canonical order
CanonicalOf(cu) == CHOOSE p \in Orderings(cu) : Canonical(p)

\* the units are compatible: in canonical order they have the same length and
\* paired entries have the same exponent and the same base unit
Compatible(a, b) ==
    /\ Len(a) = Len(b)
    /\ \A k \in 1..Len(a) :
          /\ CanonicalOf(a)[k].Exponent = CanonicalOf(b)[k].Exponent
          /\ CanonicalOf(a)[k].Unit.BaseUnit = CanonicalOf(b)[k].Unit.BaseUnit

\* value converted entry by entry from the paired entries of from to those of
\* to, from entry k on
RECURSIVE ConvertedAlong(_, _, _, _)
ConvertedAlong(value, from, to, k) ==
    IF k > Len(from) THEN value
    ELSE ConvertedAlong(
             ConvertFundamentalUnits(value, from[k].Unit, to[k].Unit, from[k].Exponent),
             from, to, k + 1)

\* the top-level operator of line i, when the line is one operator without an
\* annotation of its own
TopOperator(i) == Lines[i].Ast.Params[1]

IsSum(i) ==
    /\ Lines[i].Ast.Kind = "Expression"
    /\ Lines[i].Ast.Unit = << >>
    /\ Len(Lines[i].Ast.Params) = 1
    /\ TopOperator(i).Kind = "Operator"
    /\ TopOperator(i).Value \in {<<"+">>, <<"-">>}

\* the values of the operands of the top-level operator of line i
Left(i) == executeAst(TopOperator(i).Params[1], Lines, Variables)

Right(i) == executeAst(TopOperator(i).Params[2], Lines, Variables)

\* the right operand of line i in the unit of the left operand
RightConverted(i) ==
    ConvertedAlong(Right(i).val, CanonicalOf(Right(i).unit), CanonicalOf(Left(i).unit), 1)

\* C20: a line that adds or subtracts two operands that evaluate without error
\* has an error when their units are not compatible; otherwise its value is the
\* left value plus or minus the right value converted into the left unit, its
\* unit is the left unit for + and the empty unit for -.
C20_SumConvertsRightOperand ==
    pc = "done" =>
        \A i \in LineIndices :
            (IsSum(i) /\ Left(i).st = "ok" /\ Right(i).st = "ok") =>
                IF ~Compatible(Left(i).unit, Right(i).unit) THEN HasError(Lines[i])
                ELSE /\ ~HasError(Lines[i])
                     /\ Lines[i].Value =
                           (IF TopOperator(i).Value = <<"+">>
                            THEN FAdd(Left(i).val, RightConverted(i))
                            ELSE FSub(Left(i).val, RightConverted(i)))
                     /\ Lines[i].Unit \in
                           (IF TopOperator(i).Value = <<"+">>
                            THEN Orderings(Left(i).unit) ELSE {<< >>})

\* (5 [km]) + (200 [m]) was evaluated to 5.2 km
C20_Witness ==
    /\ pc = "done"
    /\ Len(Lines) = 1
    /\ IsSum(1)
    /\ TopOperator(1).Value = <<"+">>
    /\ Left(1) = OkVal(Num(5), <<UnitExponent(UnitTable[<<"k", "i", "l", "o", "m", "e", "t", "e", "r">>], Num(1))>>)
    /\ Right(1) = OkVal(Num(200), <<UnitExponent(UnitTable[<<"m", "e", "t", "e", "r">>], Num(1))>>)
    /\ Lines[1].Value = Rat(26, 5)
    /\ Lines[1].Unit = Left(1).unit

\* (5 [km]) - (200 [m]) was evaluated to 4.8 without a unit
C20_WitnessDifference ==
    /\ pc = "done"
    /\ Len(Lines) = 1
    /\ IsSum(1)
    /\ TopOperator(1).Value = <<"-">>
    /\ Left(1).unit = <<UnitExponent(UnitTable[<<"k", "i", "l", "o", "m", "e", "t", "e", "r">>], Num(1))>>
    /\ Lines[1].Value = Rat(24, 5)
    /\ Lines[1].Unit = << >>

\* a line that adds a number without a unit to a value with a unit has an error
C20_WitnessOneEmpty ==
    /\ pc = "done"
    /\ Len(Lines) = 1
    /\ IsSum(1)
    /\ Left(1).st = "ok" /\ Right(1).st = "ok"
    /\ Left(1).unit = << >>
    /\ Right(1).unit # << >>
    /\ HasError(Lines[1])

(***************************************************************************)
(* Expressions with a unit annotation                                      *)
(***************************************************************************)
\* the nodes of the tree ast
RECURSIVE Nodes(_)
Nodes(ast) == {ast} \cup UNION {Nodes(ast.Params[k]) : k \in 1..Len(ast.Params)}

\* the Expression nodes of line i whose operand evaluates without error
EvaluatedExpressions(i) ==
    {n \in Nodes(Lines[i].Ast) :
        /\ n.Kind = "Expression"
        /\ Len(n.Params) = 1
        /\ executeAst(n.Params[1], Lines, Variables).st = "ok"}

\* the value of the operand of the Expression node n
Operand(n) == executeAst(n.Params[1], Lines, Variables)

\* the value of the Expression node n is what its annotation asks for
AnnotationApplied(n, result) ==
    IF n.Unit = << >>
    THEN result = Operand(n)
    ELSE IF Operand(n).unit = << >>
    THEN result = OkVal(Operand(n).val, n.Unit)
    ELSE IF ~Compatible(Operand(n).unit, n.Unit)
    THEN result.st = "err"
    ELSE result = OkVal(ConvertedAlong(Operand(n).val, CanonicalOf(Operand(n).unit),
                                       CanonicalOf(n.Unit), 1),
                        n.Unit)

\* C21: an Expression node without annotation has the value and the unit of its
\* operand; with an annotation and a unitless operand it has the value of the
\* operand and the annotated unit; with an annotation and an operand with a unit
\* it has the converted value and the annotated unit, or an error when the two
\* units are not compatible.  The outcome of the line is that of its top node.
C21_ExpressionAnnotation ==
    pc = "done" =>
        \A i \in LineIndices :
            /\ \A n \in EvaluatedExpressions(i) :
                  AnnotationApplied(n, executeAst(n, Lines, Variables))
            /\ Lines[i].Ast \in EvaluatedExpressions(i) =>
                  AnnotationApplied(Lines[i].Ast,
                      IF HasError(Lines[i]) THEN ErrVal(Lines[i].Error)
                      ELSE OkVal(Lines[i].Value, Lines[i].Unit))

\* (5 [km]) [m] was evaluated to 5000 m
C21_Witness ==
    /\ pc = "done"
    /\ Len(Lines) = 1
    /\ Lines[1].Ast \in EvaluatedExpressions(1)
    /\ Operand(Lines[1].Ast) =
          OkVal(Num(5), <<UnitExponent(UnitTable[<<"k", "i", "l", "o", "m", "e", "t", "e", "r">>], Num(1))>>)
    /\ Lines[1].Ast.Unit = <<UnitExponent(UnitTable[<<"m", "e", "t", "e", "r">>], Num(1))>>
    /\ Lines[1].Value = Num(5000)
    /\ Lines[1].Unit = Lines[1].Ast.Unit

\* (5 [km]) [s] has an error
C21_WitnessIncompatible ==
    /\ pc = "done"
    /\ Len(Lines) = 1
    /\ Lines[1].Ast \in EvaluatedExpressions(1)
    /\ Operand(Lines[1].Ast).unit # << >>
    /\ Lines[1].Ast.Unit = <<UnitExponent(UnitTable[<<"s", "e", "c", "o", "n", "d">>], Num(1))>>
    /\ HasError(Lines[1])

(***************************************************************************)
(* Bracketed unit expressions                                              *)
(***************************************************************************)
\* the positions of the unit atoms, of the `/` and of the numbers in inner
Atoms(inner) == {k \in 1..Len(inner) : inner[k].Kind = "literal"}

Divisions(inner) == {k \in 1..Len(inner) : IsToken(inner[k], "operator", <<"/">>)}

\* position k holds `^` and position k + 1 a number
IsExponentAt(inner, k) ==
    /\ k + 1 <= Len(inner)
    /\ IsToken(inner[k], "operator", <<"^">>)
    /\ inner[k + 1].Kind = "number"

\* the numbers of inner that are not the number of a `^`
BareNumbers(inner) ==
    {k \in 1..Len(inner) : inner[k].Kind = "number" /\ ~(k > 1 /\ IsExponentAt(inner, k - 1))}

\* the exponent the atom at position k ends with: its ^number or 1, negated
\* when a `/` is written before the atom
ExponentAt(inner, k) ==
    FMul(IF \E d \in Divisions(inner) : d < k THEN Num(-1) ELSE Num(1),
         IF IsExponentAt(inner, k + 1) THEN Num(DigitsValue(inner[k + 2].Value)) ELSE Num(1))

\* the j-th atom of inner, counted from 1
AtomNumber(inner, j) ==
    CHOOSE k \in Atoms(inner) : Cardinality({l \in Atoms(inner) : l <= k}) = j

\* C22: in a bracketed unit expression every atom before the `/` ends with its
\* ^number or 1 as exponent and every atom after it with that exponent negated;
\* a second `/` is a parse error; a bare number after the first atom is a parse
\* error, while bare numbers before the first atom are accepted and ignored.
C22_DivisionFlipsFollowingAtoms ==
    Returned("parser") =>
        /\ Cardinality(Divisions(call.inner)) >= 2 => ret.val.st = "err"
        /\ (\E k \in BareNumbers(call.inner) : \E a \in Atoms(call.inner) : a < k)
              => ret.val.st = "err"
        /\ (/\ Cardinality(Divisions(call.inner)) <= 1
            /\ \A k \in 1..Len(call.inner) : ~IsToken(call.inner[k], "operator", <<"^">>)
            /\ \A k \in BareNumbers(call.inner) : \A a \in Atoms(call.inner) : k < a)
              => ret.val.st = "ok"
        /\ ret.val.st = "ok" =>
              /\ Len(ret.val.ast.Unit) = Cardinality(Atoms(call.inner))
              /\ \A j \in 1..Len(ret.val.ast.Unit) :
                    ret.val.ast.Unit[j].Exponent =
                        ExponentAt(call.inner, AtomNumber(call.inner, j))

(***************************************************************************)
(* Well-formed composite units                                             *)
(***************************************************************************)
\* the unit holds at most one entry per base unit
OneEntryPerFamily(cu) ==
    \A j, k \in 1..Len(cu) : j # k => cu[j].Unit.BaseUnit # cu[k].Unit.BaseUnit

\* C23: every composite unit the parser attaches to a node of the Ast of a
\* line, and every composite unit Execute stores in the Unit of a line, holds
\* at most one entry per base unit.
C23_OneEntryPerFamily ==
    pc = "done" =>
        \A i \in LineIndices :
            /\ \A n \in Nodes(Lines[i].Ast) : OneEntryPerFamily(n.Unit)
            /\ OneEntryPerFamily(Lines[i].Unit)

\* C24: no composite unit that Execute stores in the Unit of a line holds an
\* entry with the exponent 0.
C24_NoZeroExponent ==
    pc = "done" =>
        \A i \in LineIndices :
            \A k \in 1..Len(Lines[i].Unit) : Lines[i].Unit[k].Exponent # Num(0)

(***************************************************************************)
(* The shape of a parsed line                                              *)
(***************************************************************************)
\* every Expression node of the tree has exactly one child and the tree holds
\* no RawOperator and no UnitExpression node
Folded(ast) ==
    \A n \in Nodes(ast) :
        /\ n.Kind = "Expression" => Len(n.Params) = 1
        /\ n.Kind \notin {"RawOperator", "UnitExpression"}

\* C25: the Ast of a line with tokens that parser has parsed without error has
\* exactly one child under every Expression node and no RawOperator or
\* UnitExpression node, and its evaluation does not panic.
C25_ParsedLineIsFolded ==
    \A i \in LineIndices :
        Parsed(i) /\ ~IsEmpty(Lines[i]) /\ ~HasError(Lines[i])
            /\ ~(pc = "panic" /\ panicIn = "parser" /\ i = idx)
        => /\ Folded(Lines[i].Ast)
           /\ ~(pc = "panic" /\ panicIn = "executeAst" /\ ExecuteTarget(idx) = i)

(***************************************************************************)
(* Literals: constants, variables and functions                            *)
(***************************************************************************)
\* token k of tokens stands outside unit brackets
OutsideBrackets(tokens, k) ==
    Cardinality({j \in 1..(k - 1) : IsToken(tokens[j], "bracket", <<"[">>)})
        = Cardinality({j \in 1..(k - 1) : IsToken(tokens[j], "bracket", <<"]">>)})

\* the literals of line i outside unit brackets
Literals(i) ==
    {Lines[i].Tokens[k].Value : k \in {j \in 1..Len(Lines[i].Tokens) :
        /\ Lines[i].Tokens[j].Kind = "literal"
        /\ OutsideBrackets(Lines[i].Tokens, j)}}

\* the literal is declared as a variable by some line of the document
IsDeclared(value) == value \in DOMAIN Variables

\* the nodes of line i that a literal becomes
LiteralNodes(i) ==
    {n \in Nodes(Lines[i].Ast) : n.Kind \in {"Constant", "Variable", "Function"}}

\* parser has returned an Ast for line i
HasAst(i) ==
    /\ Parsed(i)
    /\ ~(pc = "panic" /\ panicIn = "parser" /\ i = idx)
    /\ ~IsEmpty(Lines[i])
    /\ ~HasError(Lines[i])

\* C26: in a line parsed without error every literal outside unit brackets is a
\* constant, a declared variable or a function name and has become a node of
\* the first of these kinds that applies: Constant for pi and e even when a
\* variable of that name is declared, Variable for a declared name even when it
\* is a function name, Function otherwise; the tree holds no other Constant,
\* Variable or Function node.
C26_LiteralClassification ==
    \A i \in LineIndices :
        HasAst(i) =>
            /\ \A v \in Literals(i) :
                   /\ v \in constants
                        => \E n \in LiteralNodes(i) : n.Value = v /\ n.Kind = "Constant"
                   /\ v \notin constants /\ IsDeclared(v)
                        => \E n \in LiteralNodes(i) : n.Value = v /\ n.Kind = "Variable"
                   /\ v \notin constants /\ ~IsDeclared(v)
                        => /\ v \in functions
                           /\ \E n \in LiteralNodes(i) : n.Value = v /\ n.Kind = "Function"
            /\ \A n \in LiteralNodes(i) :
                   /\ n.Value \in Literals(i)
                   /\ n.Kind = "Variable" => n.Value \notin constants /\ IsDeclared(n.Value)
                   /\ n.Kind = "Function" => n.Value \notin constants /\ ~IsDeclared(n.Value)
                   /\ n.Kind = "Constant" => n.Value \in constants

\* pi is declared as a variable and a line that names pi has the Constant node
C26_Witness ==
    /\ IsDeclared(<<"p", "i">>)
    /\ \E i \in LineIndices :
           /\ HasAst(i)
           /\ \E n \in LiteralNodes(i) : n.Kind = "Constant" /\ n.Value = <<"p", "i">>
           /\ pc = "done"
           /\ Lines[i].Value = Sym("+", <<Sym("pi", << >>), Num(1)>>)

\* sqrt is declared as a variable and the line sqrt(9) reads the variable
C26_WitnessFunctionName ==
    /\ IsDeclared(<<"s", "q", "r", "t">>)
    /\ \E i \in LineIndices :
           /\ HasAst(i)
           /\ \E n \in LiteralNodes(i) : n.Kind = "Variable" /\ n.Value = <<"s", "q", "r", "t">>
           /\ pc = "done"
           /\ Lines[i].Value = Num(4)
           /\ Len(Lines[i].Tokens) = 4

\* a line with a literal that is no constant, variable or function has an error
C26_WitnessUnknown ==
    /\ pc = "done"
    /\ \E i \in LineIndices :
           /\ <<"f", "o", "o">> \in Literals(i)
           /\ Lines[i].Error = "Unrecognized syntax"

(***************************************************************************)
(* Dependency edges and variable reads                                     *)
(***************************************************************************)
\* line u reads the variable that line v declares: a literal of line u outside
\* unit brackets that is no constant names it, the literal walk makes a
\* Variable node of
Reads(u, v) ==
    \E name \in Literals(u) :
        /\ name \notin constants
        /\ IsDeclared(name)
        /\ Variables[name] = v

\* parseLineDependencies has run
DependenciesParsed ==
    pc \notin {"Tokenize", "parseVariableDeclarations", "parseLineDependencies",
               "call", "return"}

\* following reads of variables leads from line u to line v
ReadsPath(u, v) ==
    \E p \in UNION {[1..n -> LineIndices] : n \in 2..(Len(Lines) + 1)} :
        /\ p[1] = u
        /\ p[Len(p)] = v
        /\ \A k \in 1..(Len(p) - 1) : Reads(p[k], p[k + 1])

\* C27: every dependency edge recorded for a line stands for a read of a
\* variable by that line, and a document is rejected as cyclic only when
\* following reads of variables leads from a line back to itself.
C27_EdgesAreVariableReads ==
    DependenciesParsed =>
        /\ \A u, v \in LineIndices : Edge(u, v) => Reads(u, v)
        /\ Rejected => \E u \in LineIndices : ReadsPath(u, u)

(***************************************************************************)
(* Compatibility and dimensions                                            *)
(***************************************************************************)
\* cu and other have the same exponent in every family of base units
SameDimensions(cu, other) ==
    \A base \in Families(cu) \cup Families(other) :
        ExponentOf(cu, base) = ExponentOf(other, base)

\* C28: IsCompatible of two well-formed composite units is true exactly when
\* both have the same exponent in every family of base units, whatever the
\* units of the family and the order of the entries.
C28_CompatibleIffSameDimensions ==
    Returned("IsCompatible") => (ret.val = SameDimensions(call.cu, call.other))

(***************************************************************************)
(* The server: updates of UnitTable and evaluation runs                    *)
(***************************************************************************)
\* the entries of UnitTable in the composite units of the nodes of all lines
EntriesRead ==
    UNION {UNION {{n.Unit[k].Unit : k \in 1..Len(n.Unit)} : n \in Nodes(Lines[i].Ast)} :
              i \in LineIndices}

\* C29: no write of the /currencies handler to UnitTable falls into the run of
\* ParseCode and Execute of a request to /execute, so the run reads the same
\* conversion factors from its start to its end: the units the run has read
\* from UnitTable hold one ConversionFactor per unit.
C29_RunReadsOneTable ==
    \A a, b \in EntriesRead : a.ID = b.ID => a.ConversionFactor = b.ConversionFactor


=============================================================================
